---- MODULE Spec2Model ----
(***************************************************************************)
(* Model of the Pi-hole v6 exporters.                                      *)
(*                                                                         *)
(*  - logs_exporter/pihole6_logs_exporter.py : PiholeLogsExporter, one     *)
(*    process per export cycle, cursor kept in a state file.               *)
(*  - pihole6_exporter.py : PiholeCollector, a long-running collector      *)
(*    whose collect() is run by every scrape.                              *)
(***************************************************************************)
EXTENDS Integers, Sequences, FiniteSets, TLC

(***************************************************************************)
(* Bounds of the model                                                     *)
(***************************************************************************)
ClockBase == 2000      \* unix second at which the model starts
MaxTime == 2           \* the clock stays within ClockBase .. ClockBase+MaxTime
MaxRecords == 1        \* number of query records the upstream appends
MaxPushCount == 2      \* the sink counts up to this many deliveries of a record

Procs == {1, 2}        \* exporter processes (one per export cycle)

(***************************************************************************)
(* Program constants                                                       *)
(***************************************************************************)
Lookback == 1800       \* read_last_timestamp: int(time.time()) - 1800

None == "None"         \* Python None
NoTs == -1             \* a timestamp variable that is not set

\* the state file: absent, or present with its content (a sequence of characters)
NoFile == [exists |-> FALSE, content |-> <<>>]
File(chars) == [exists |-> TRUE, content |-> chars]
NotRead == [exists |-> FALSE, content |-> <<"?">>]   \* run() has not read it yet

VARIABLES
  clock,        \* int(time.time())
  stateFile,    \* the state file: NoFile or File(content)
  queriesDb,    \* upstream query log: sequence of [time, hasTime]
  pushed,       \* pushed[i] = number of times record i was accepted by the sink
  cursorHigh,   \* highest timestamp the state file has held so far (NoTs if none)
  pc,           \* position of each exporter process
  loki_target,  \* self.loki_target
  using_auth,   \* self.using_auth
  sid,          \* self.sid
  last_ts,      \* run(): last_ts
  current_ts,   \* run(): current_ts
  queries,      \* run(): queries (indices into queriesDb)
  to_write,     \* argument of the pending write_last_timestamp call
  to_send,      \* records of loki_streams handed to send_to_loki
  fileAtStart,  \* state file content when run() read it
  fetchResp,    \* response received by fetch_queries (None before)
  pushResp,     \* response received by send_to_loki (None before)
  wrote,        \* write_last_timestamp was called in this cycle
  logoutResp,   \* response received by logout (None before)
  collector,    \* the PiholeCollector object (its fields)
  apiSessions,  \* session ids the upstream API accepts
  resolver,     \* what gethostbyaddr answers for each address
  emitted,      \* metric families yielded by the last collect()
  scrape,       \* the last collect(): its inputs and how far it got
  threads,      \* the collect() calls running in server threads
  fmtCall,          \* a call of format_for_loki: its argument, locals and cache
  resolved,     \* the last call of resolve_hostname and what it did
  window,       \* the 1-minute window of the last scrape and the upstream's log
  apiCall,      \* the last get_api_call of either exporter and how it ended
  cursorTrip,   \* a write_last_timestamp call and the read that follows it
  race          \* whether export cycles have overlapped, whether a write failed

logVars == <<clock, stateFile, queriesDb, pushed, cursorHigh, pc,
             loki_target, using_auth, sid, last_ts, current_ts, queries,
             to_write, to_send, fileAtStart, fetchResp, pushResp, wrote,
             logoutResp>>

metricsVars == <<collector, apiSessions, resolver, emitted, scrape, threads>>

\* the calls of format_for_loki and resolve_hostname followed on their own
callVars == <<apiCall, cursorTrip, race>>

unitVars == <<fmtCall, resolved, window, callVars>>

vars == <<logVars, metricsVars, unitVars>>

(***************************************************************************)
(* Text: str(int), str.strip(), int(str)                                   *)
(***************************************************************************)
Digits == <<"0", "1", "2", "3", "4", "5", "6", "7", "8", "9">>
Whitespace == {" ", "\n"}

RECURSIVE StrNat(_)
StrNat(n) ==
  IF n < 10 THEN <<Digits[n + 1]>>
  ELSE StrNat(n \div 10) \o <<Digits[(n % 10) + 1]>>

\* str(timestamp)
PyStr(n) == IF n < 0 THEN <<"-">> \o StrNat(0 - n) ELSE StrNat(n)

RECURSIVE LStrip(_)
LStrip(s) ==
  IF s # <<>> /\ Head(s) \in Whitespace THEN LStrip(Tail(s)) ELSE s

RECURSIVE RStrip(_)
RStrip(s) ==
  IF s # <<>> /\ s[Len(s)] \in Whitespace
  THEN RStrip(SubSeq(s, 1, Len(s) - 1)) ELSE s

\* content.strip()
Strip(s) == RStrip(LStrip(s))

DigitValue(c) == CHOOSE d \in 0..9 : Digits[d + 1] = c

IsDigit(c) == \E d \in 0..9 : Digits[d + 1] = c

RECURSIVE NatOf(_)
NatOf(s) ==
  IF s = <<>> THEN 0
  ELSE 10 * NatOf(SubSeq(s, 1, Len(s) - 1)) + DigitValue(s[Len(s)])

\* int(content): [ok |-> FALSE] stands for ValueError
PyInt(s) ==
  LET t == Strip(s)
      signed == t # <<>> /\ Head(t) \in {"-", "+"}
      body == IF signed THEN Tail(t) ELSE t
  IN IF body # <<>> /\ \A i \in 1..Len(body) : IsDigit(body[i])
     THEN [ok |-> TRUE,
           val |-> IF signed /\ Head(t) = "-" THEN 0 - NatOf(body)
                   ELSE NatOf(body)]
     ELSE [ok |-> FALSE, val |-> 0]

(***************************************************************************)
(* HTTP                                                                    *)
(***************************************************************************)
Statuses == {200, 204, 304, 500}
NoResponse == [status |-> 0, body |-> "none"]   \* RequestException: no response
NotSent == [status |-> -1, body |-> "none"]     \* the request was not made

\* Response.raise_for_status(): HTTPError for 4xx and 5xx
RaiseForStatus(resp) == resp.status >= 400 /\ resp.status < 600

\* responses the upstream API gives to the queries call: the queries of the
\* window or a body that is not JSON with 200, no body with 204 and 304, an
\* error document (JSON or not) with 500
FetchResponses ==
  {NoResponse}
  \cup {[status |-> 200, body |-> b] : b \in {"queries", "not_json"}}
  \cup {[status |-> s, body |-> "not_json"] : s \in {204, 304}}
  \cup {[status |-> 500, body |-> b] : b \in {"other_json", "not_json"}}

\* responses the log sink can give to a push
PushResponses ==
  {NoResponse} \cup {[status |-> s, body |-> "none"] : s \in Statuses}

\* PiholeLogsExporter.get_api_call: TRUE when it returns the decoded reply
LogsGetApiCallOk(resp) ==
  /\ resp # NoResponse
  /\ ~RaiseForStatus(resp)
  /\ resp.body # "not_json"

\* send_to_loki: TRUE when it returns without raising
SendToLokiOk(resp) == resp # NoResponse /\ ~RaiseForStatus(resp)

(***************************************************************************)
(* Cursor store                                                            *)
(***************************************************************************)
ReadLastTimestampWrong(file, now) ==
  IF ~file.exists THEN 0
  ELSE IF Strip(file.content) = <<>> THEN now - Lookback
  ELSE IF PyInt(Strip(file.content)).ok THEN PyInt(Strip(file.content)).val
  ELSE now - Lookback

\* read_last_timestamp
ReadLastTimestamp(file, now) ==
  IF ~file.exists THEN now - Lookback                    \* FileNotFoundError
  ELSE IF Strip(file.content) = <<>> THEN now - Lookback \* empty content
  ELSE IF PyInt(Strip(file.content)).ok THEN PyInt(Strip(file.content)).val
  ELSE now - Lookback                                    \* ValueError

\* write_last_timestamp: open(state_file, 'w') truncates the file, then
\* str(timestamp) is written when the file is closed; IOError is swallowed.
\*   "ok"         the file holds str(timestamp)
\*   "open_fail"  open() raised: the file is as it was
\*   "flush_fail" the write raised after the truncation: the file is empty
WriteOutcomes == {"ok", "open_fail", "flush_fail"}

WriteLastTimestampAppend(file, timestamp, outcome) ==
  CASE outcome = "ok" -> File(file.content \o PyStr(timestamp))
    [] outcome = "open_fail" -> file
    [] outcome = "flush_fail" -> file

WriteLastTimestamp(file, timestamp, outcome) ==
  CASE outcome = "ok" -> File(PyStr(timestamp))
    [] outcome = "open_fail" -> file
    [] outcome = "flush_fail" -> File(<<>>)

\* the state file holds a timestamp / the timestamp it holds
FileHoldsInt(file) == file.exists /\ PyInt(file.content).ok
FileInt(file) == PyInt(file.content).val

Max(a, b) == IF a >= b THEN a ELSE b


(***************************************************************************)
(* Log sink target                                                         *)
(***************************************************************************)
PushPath == <<"/loki/api/v1/push">>

HttpUrl == <<"h", "t", "t", "p", ":", "/", "/", "l", "/">>
HttpsUrl == <<"h", "t", "t", "p", "s", ":", "/", "/", "l">>

NoTarget == <<None>>     \* loki_target is None

\* values of --loki-target
LokiTargets == {HttpUrl, HttpsUrl, NoTarget, <<>>, <<" ">>, <<"/", "p">>,
                <<"l", ":", "1">>}

\* the targets the exporter processes are launched with
LaunchTargets == {HttpUrl, NoTarget, <<>>, <<"/", "p">>, <<"l", ":", "1">>}

StartsWith(s, prefix) ==
  Len(s) >= Len(prefix) /\ SubSeq(s, 1, Len(prefix)) = prefix

RECURSIVE RStripSlash(_)
RStripSlash(s) ==
  IF s # <<>> /\ s[Len(s)] = "/"
  THEN RStripSlash(SubSeq(s, 1, Len(s) - 1)) ELSE s

\* get_loki_url: [ok |-> FALSE] stands for ValueError
GetLokiUrl(target) ==
  IF target = NoTarget \/ target = <<>> \/ Strip(target) = <<>>
    THEN [ok |-> FALSE, url |-> <<>>]
  ELSE IF StartsWith(target, <<"/">>)
    THEN [ok |-> FALSE, url |-> <<>>]
  ELSE IF ~(StartsWith(target, <<"h", "t", "t", "p", ":", "/", "/">>)
            \/ StartsWith(target, <<"h", "t", "t", "p", "s", ":", "/", "/">>))
    THEN [ok |-> FALSE, url |-> <<>>]
  ELSE [ok |-> TRUE, url |-> RStripSlash(target) \o PushPath]

(***************************************************************************)
(* Upstream query log and fetch window                                     *)
(***************************************************************************)
RECURSIVE SelectWindow(_, _, _, _)
\* indices i >= k of db whose time lies in [from, until], in log order
SelectWindow(db, k, from, until) ==
  IF k > Len(db) THEN <<>>
  ELSE (IF db[k].time >= from /\ db[k].time <= until THEN <<k>> ELSE <<>>)
       \o SelectWindow(db, k + 1, from, until)

FetchQueriesNoUntil(db, from_ts, until_ts) ==
  SelectWindow(db, 1, from_ts + 1, until_ts + 1)

FetchQueriesFromCursor(db, from_ts, until_ts) ==
  SelectWindow(db, 1, from_ts, until_ts)

\* fetch_queries: the reply's "queries" for queries?from=from_ts+1&until=until_ts
FetchQueries(db, from_ts, until_ts) == SelectWindow(db, 1, from_ts + 1, until_ts)

RECURSIVE FormatLoop(_, _, _, _)
FormatLoop(db, qs, values, max_timestamp) ==
  IF qs = <<>> THEN [values |-> values, max_timestamp |-> max_timestamp]
  ELSE IF ~db[Head(qs)].hasTime
    THEN FormatLoop(db, Tail(qs), values, max_timestamp)     \* continue
  ELSE FormatLoop(db, Tail(qs), Append(values, Head(qs)),
                  Max(max_timestamp, db[Head(qs)].time))

\* format_for_loki: the records formatted (in input order) and max_timestamp
FormatForLoki(db, qs) == FormatLoop(db, qs, <<>>, 0)


(***************************************************************************)
(* Metrics collector (pihole6_exporter.py): aggregation of query records   *)
(***************************************************************************)
CACHE_TTL == 3600

Missing == "<missing>"     \* the key is absent from the record (KeyError)

EmptyMap == [k \in {} |-> 0]     \* {}

\* d[k] += 1 if k in d, else d[k] = 1
Inc(d, k) == IF k \in DOMAIN d THEN [d EXCEPT ![k] = @ + 1] ELSE d @@ (k :> 1)

\* reply.time of a record: a number (in units of 10 microseconds), null, a
\* value that is not a number, or absent
Num(v) == [kind |-> "number", val |-> v]
NullTime == [kind |-> "none", val |-> 0]
TextTime == [kind |-> "text", val |-> 0]
NoTimeKey == [kind |-> "missing", val |-> 0]

\* self.latency_buckets, in units of 10 microseconds, and str(bucket)
latency_buckets == <<10, 50, 100, 1000, 10000, 50000, 100000, 250000>>
BucketKeys == <<"0.0001", "0.0005", "0.001", "0.01", "0.1", "0.5", "1.0", "2.5">>
BucketKeySet == {BucketKeys[i] : i \in 1..Len(BucketKeys)}

StatusLabelShort(status) ==
  IF status = "CACHE" THEN "cache"
  ELSE IF status = "FORWARDED" THEN "forwarded"
  ELSE "unknown"

\* the status_label chosen for the latency histogram
StatusLabel(status) ==
  IF status \in {"CACHE", "CACHE_STALE"} THEN "cache"
  ELSE IF status = "FORWARDED" THEN "forwarded"
  ELSE IF status \in {"GRAVITY", "REGEX", "DENYLIST", "GRAVITY_CNAME",
                      "REGEX_CNAME", "DENYLIST_CNAME", "EXTERNAL_BLOCKED_IP",
                      "EXTERNAL_BLOCKED_NULL", "EXTERNAL_BLOCKED_NXRA",
                      "EXTERNAL_BLOCKED_EDE15", "SPECIAL_DOMAIN"} THEN "blocked"
  ELSE IF status \in {"RETRIED", "RETRIED_DNSSEC"} THEN "retried"
  ELSE IF status = "IN_PROGRESS" THEN "in_progress"
  ELSE IF status \in {"DBBUSY", "UNKNOWN"} THEN "other"
  ELSE "unknown"

\* f"None-{status}"
NoneDash(status) ==
  CASE status = "GRAVITY" -> "None-GRAVITY"
    [] status = "CACHE" -> "None-CACHE"
    [] status = "SPECIAL_DOMAIN" -> "None-SPECIAL_DOMAIN"

UpstreamLabelOther(upstream, status) ==
  IF upstream = None THEN "None-OTHER" ELSE upstream

UpstreamLabelNarrow(upstream, status) ==
  IF upstream = None
  THEN (IF status \in {"GRAVITY", "CACHE"}
        THEN NoneDash(status) ELSE "None-OTHER")
  ELSE upstream

\* the upstream label of a record
UpstreamLabel(upstream, status) ==
  IF upstream = None
  THEN (IF status \in {"GRAVITY", "CACHE", "SPECIAL_DOMAIN"}
        THEN NoneDash(status) ELSE "None-OTHER")
  ELSE upstream

\* socket.gethostbyaddr(ip): it raises, or gives a name (its labels)
LookupFailed == [ok |-> FALSE, fqdn |-> <<>>]
Resolved(labels) == [ok |-> TRUE, fqdn |-> labels]

ResolveHostnameInclusive(cache, ip, now, answer) ==
  IF ip \in DOMAIN cache /\ now - cache[ip].at <= CACHE_TTL
  THEN [hostname |-> cache[ip].name, cache |-> cache, lookup |-> FALSE]
  ELSE LET hostname == IF answer.ok /\ answer.fqdn # <<>>
                       THEN Head(answer.fqdn) ELSE ip
       IN [hostname |-> hostname,
           cache |-> [k \in DOMAIN cache \cup {ip} |->
                        IF k = ip THEN [name |-> hostname, at |-> now]
                        ELSE cache[k]],
           lookup |-> TRUE]

ResolveHostnameNoFailCache(cache, ip, now, answer) ==
  IF ip \in DOMAIN cache /\ now - cache[ip].at < CACHE_TTL
  THEN [hostname |-> cache[ip].name, cache |-> cache, lookup |-> FALSE]
  ELSE IF ~answer.ok THEN [hostname |-> ip, cache |-> cache, lookup |-> TRUE]
  ELSE LET hostname == IF answer.fqdn # <<>> THEN Head(answer.fqdn) ELSE ip
       IN [hostname |-> hostname,
           cache |-> [k \in DOMAIN cache \cup {ip} |->
                        IF k = ip THEN [name |-> hostname, at |-> now]
                        ELSE cache[k]],
           lookup |-> TRUE]

\* resolve_hostname: answer is what gethostbyaddr gives if it is called
ResolveHostname(cache, ip, now, answer) ==
  IF ip \in DOMAIN cache /\ now - cache[ip].at < CACHE_TTL
  THEN [hostname |-> cache[ip].name, cache |-> cache, lookup |-> FALSE]
  ELSE LET hostname == IF answer.ok /\ answer.fqdn # <<>>
                       THEN Head(answer.fqdn) ELSE ip
       IN [hostname |-> hostname,
           cache |-> [k \in DOMAIN cache \cup {ip} |->
                        IF k = ip THEN [name |-> hostname, at |-> now]
                        ELSE cache[k]],
           lookup |-> TRUE]

ClearTableKeep(d) == d

ClearTableDrop(d) == EmptyMap

\* one loop of clear_cnts: a key with a count is set to 0, a key at 0 is deleted
ClearTable(d) == [k \in {x \in DOMAIN d : d[x] # 0} |-> 0]

ClearCntsKeepTotals(c) ==
  [c EXCEPT !.type_cnt = ClearTable(@),
            !.status_cnt = ClearTable(@),
            !.reply_cnt = ClearTable(@),
            !.client_cnt = ClearTable(@),
            !.upstream_cnt = ClearTable(@),
            !.error_cnt = EmptyMap,
            !.latency_counts = EmptyMap,
            !.latency_sums = EmptyMap,
            !.latency_total_counts = EmptyMap]

\* clear_cnts
ClearCnts(c) ==
  [c EXCEPT !.type_cnt = ClearTable(@),
            !.status_cnt = ClearTable(@),
            !.reply_cnt = ClearTable(@),
            !.client_cnt = ClearTable(@),
            !.upstream_cnt = ClearTable(@),
            !.timeout_cnt = 0,
            !.error_cnt = EmptyMap,
            !.total_queries_processed = 0,
            !.latency_counts = EmptyMap,
            !.latency_sums = EmptyMap,
            !.latency_total_counts = EmptyMap]

TrackLatencyStrict(c, status_label, reply_time) ==
  LET counts == IF status_label \in DOMAIN c.latency_counts
                THEN c.latency_counts[status_label]
                ELSE [b \in BucketKeySet |-> 0]
      sum == IF status_label \in DOMAIN c.latency_sums
             THEN c.latency_sums[status_label] ELSE 0
      total == IF status_label \in DOMAIN c.latency_total_counts
               THEN c.latency_total_counts[status_label] ELSE 0
      set(d, v) == [k \in DOMAIN d \cup {status_label} |->
                      IF k = status_label THEN v ELSE d[k]]
      counted == [b \in BucketKeySet |->
                    LET i == CHOOSE j \in 1..Len(BucketKeys) : BucketKeys[j] = b
                    IN IF reply_time < latency_buckets[i]
                       THEN counts[b] + 1 ELSE counts[b]]
  IN [c EXCEPT !.latency_counts = set(@, counted),
               !.latency_sums = set(@, sum + reply_time),
               !.latency_total_counts = set(@, total + 1)]

\* _process_query, the latency part: the histogram of status_label takes
\* one observation
TrackLatency(c, status_label, reply_time) ==
  LET counts == IF status_label \in DOMAIN c.latency_counts
                THEN c.latency_counts[status_label]
                ELSE [b \in BucketKeySet |-> 0]
      sum == IF status_label \in DOMAIN c.latency_sums
             THEN c.latency_sums[status_label] ELSE 0
      total == IF status_label \in DOMAIN c.latency_total_counts
               THEN c.latency_total_counts[status_label] ELSE 0
      set(d, v) == [k \in DOMAIN d \cup {status_label} |->
                      IF k = status_label THEN v ELSE d[k]]
      counted == [b \in BucketKeySet |->
                    LET i == CHOOSE j \in 1..Len(BucketKeys) : BucketKeys[j] = b
                    IN IF reply_time <= latency_buckets[i]
                       THEN counts[b] + 1 ELSE counts[b]]
  IN [c EXCEPT !.latency_counts = set(@, counted),
               !.latency_sums = set(@, sum + reply_time),
               !.latency_total_counts = set(@, total + 1)]

HasLatencyStrict(reply_time) == reply_time.kind = "number" /\ reply_time.val > 0

\* reply_time is not None and isinstance(reply_time, (int, float)) and
\* reply_time >= 0
HasLatency(reply_time) == reply_time.kind = "number" /\ reply_time.val >= 0

IsTimeoutRcodeOnly(rcode, status) == rcode = "TIMEOUT"

\* rcode == "TIMEOUT" or status == "TIMEOUT"
IsTimeout(rcode, status) == rcode = "TIMEOUT" \/ status = "TIMEOUT"

IsErrorAny(rcode) == rcode \notin {"", None}

\* rcode and rcode != "NOERROR"
IsError(rcode) == rcode \notin {"", None, "NOERROR"}

\* _process_query: the collector after the record, and whether it raised;
\* dns[ip] is what gethostbyaddr(ip) gives during this scrape
ProcessQuery(c, q, now, dns) ==
  IF q.type = Missing \/ q.status = Missing \/ q.reply_type = Missing
     \/ q.ip = Missing
  THEN [c |-> c, raised |-> TRUE]
  ELSE
    LET r == ResolveHostname(c.hostname_cache, q.ip, now, dns[q.ip])
        c0 == [c EXCEPT !.hostname_cache = r.cache]
    IN IF q.upstream = Missing THEN [c |-> c0, raised |-> TRUE]
       ELSE
         LET c1 == [c0 EXCEPT
                      !.type_cnt = Inc(@, q.type),
                      !.status_cnt = Inc(@, q.status),
                      !.reply_cnt = Inc(@, q.reply_type),
                      !.client_cnt = Inc(@, r.hostname),
                      !.upstream_cnt = Inc(@, UpstreamLabel(q.upstream, q.status))]
         IN IF q.reply_time.kind = "missing" THEN [c |-> c1, raised |-> TRUE]
            ELSE
              LET c2 == IF HasLatency(q.reply_time)
                        THEN TrackLatency(c1, StatusLabel(q.status), q.reply_time.val)
                        ELSE c1
                  rcode == IF q.rcode = Missing THEN "" ELSE q.rcode
                  c3 == IF IsTimeout(rcode, q.status)
                        THEN [c2 EXCEPT !.timeout_cnt = @ + 1] ELSE c2
                  c4 == [c3 EXCEPT !.total_queries_processed = @ + 1]
                  c5 == IF IsError(rcode)
                        THEN [c4 EXCEPT !.error_cnt = Inc(@, rcode)] ELSE c4
              IN [c |-> c5, raised |-> FALSE]

RECURSIVE ProcessAll(_, _, _, _)
\* collect(): for q in reply["queries"]: self._process_query(q)
ProcessAll(c, qs, now, dns) ==
  IF qs = <<>> THEN [c |-> c, raised |-> FALSE]
  ELSE LET r == ProcessQuery(c, Head(qs), now, dns)
       IN IF r.raised THEN r ELSE ProcessAll(r.c, Tail(qs), now, dns)

(***************************************************************************)
(* Metrics collector: collect(), run by every scrape                       *)
(***************************************************************************)
Query(type, status, reply_type, reply_time, ip, upstream, rcode) ==
  [type |-> type, status |-> status, reply_type |-> reply_type,
   reply_time |-> reply_time, ip |-> ip, upstream |-> upstream, rcode |-> rcode]

IPs == {"10.0.0.2", "10.0.0.3"}

\* query records the upstream returns for the 1-minute window
SampleQueries ==
  {Query("A", "FORWARDED", "IP", Num(250), "10.0.0.2", "8.8.8.8#53", "NOERROR"),
   Query("AAAA", "GRAVITY", "NODATA", Num(3), "10.0.0.3", None, "NOERROR"),
   Query("A", "FORWARDED", "UNKNOWN", Num(-1), "10.0.0.2", "8.8.8.8#53", "TIMEOUT"),
   Query("A", "FORWARDED", "IP", Num(250), "10.0.0.2", Missing, "NOERROR")}

MaxBatch == 2          \* number of records in the 1-minute window

Batches == UNION {[1..n -> SampleQueries] : n \in 0..MaxBatch}

\* what gethostbyaddr answers for each address
DnsWorlds ==
  {[ip \in IPs |-> IF ip = "10.0.0.2" THEN a ELSE LookupFailed] :
     a \in {LookupFailed, Resolved(<<"nas", "lan">>)}}

\* __init__ of PiholeCollector, with or without a key
NewCollector(key) ==
  [using_auth |-> key # None,
   sid |-> IF key # None THEN "sid" ELSE None,
   type_cnt |-> EmptyMap,
   status_cnt |-> EmptyMap,
   reply_cnt |-> EmptyMap,
   client_cnt |-> EmptyMap,
   upstream_cnt |-> EmptyMap,
   timeout_cnt |-> 0,
   hostname_cache |-> EmptyMap,
   error_cnt |-> EmptyMap,
   total_queries_processed |-> 0,
   latency_counts |-> EmptyMap,
   latency_sums |-> EmptyMap,
   latency_total_counts |-> EmptyMap]

\* the aggregation state of a collector
Snapshot(c) ==
  [type_cnt |-> c.type_cnt, status_cnt |-> c.status_cnt,
   reply_cnt |-> c.reply_cnt, client_cnt |-> c.client_cnt,
   upstream_cnt |-> c.upstream_cnt, timeout_cnt |-> c.timeout_cnt,
   error_cnt |-> c.error_cnt,
   total_queries_processed |-> c.total_queries_processed,
   latency_counts |-> c.latency_counts, latency_sums |-> c.latency_sums,
   latency_total_counts |-> c.latency_total_counts]

\* no record has been handed to _process_query
NoQuery == Query(Missing, Missing, Missing, NoTimeKey, Missing, Missing, Missing)

NoScrape ==
  [seq |-> 0, stage |-> "none", unauthorized |-> FALSE, batch |-> <<>>,
   last |-> NoQuery, cleared |-> Snapshot(NewCollector(None))]

\* responses of the upstream API to a GET: the expected document, another
\* JSON document, or a body that is not JSON
ApiResponses ==
  {NoResponse, [status |-> 200, body |-> "json"],
   [status |-> 200, body |-> "other_json"], [status |-> 200, body |-> "not_json"],
   [status |-> 500, body |-> "other_json"]}
Unauthorized == [status |-> 401, body |-> "other_json"]

\* the upstream rejects the session the collector presents
Rejected(c, sessions) == c.using_auth /\ c.sid \notin sessions

\* what the upstream answers to the collector
Answers(c, sessions) ==
  IF Rejected(c, sessions) THEN {Unauthorized} ELSE ApiResponses

\* PiholeCollector.get_api_call: TRUE when it returns the decoded reply
MetricsGetApiCallOk(resp) ==
  resp # NoResponse /\ resp.status = 200 /\ resp.body # "not_json"

Family(name, samples, hist, timestamp) ==
  [name |-> name, samples |-> samples, hist |-> hist, timestamp |-> timestamp]

\* the families built from stats/summary
SummaryFamilies ==
  [i \in 1..6 |->
     Family(<<"pihole_query_by_type", "pihole_query_by_status",
              "pihole_query_replies", "pihole_query_count",
              "pihole_client_count", "pihole_domains_being_blocked">>[i],
            EmptyMap, EmptyMap, NoTs)]

\* the family built from stats/upstreams
UpstreamsFamily == Family("pihole_query_upstream_count", EmptyMap, EmptyMap, NoTs)

common_error_codes == {"SERVFAIL", "NXDOMAIN", "REFUSED", "FORMERR", "NOTIMP"}

\* complete_error_counts
CompleteErrorCounts(c) ==
  [r \in common_error_codes \cup DOMAIN c.error_cnt |->
     IF r \in DOMAIN c.error_cnt THEN c.error_cnt[r] ELSE 0]

HistogramInfFromLast(c, status_label) ==
  [buckets |-> [i \in 1..Len(BucketKeys) |->
                  c.latency_counts[status_label][BucketKeys[i]]],
   inf |-> c.latency_counts[status_label][BucketKeys[Len(BucketKeys)]],
   sum |-> c.latency_sums[status_label]]

\* the buckets of one status_label: the counts in boundary order, then +Inf
Histogram(c, status_label) ==
  [buckets |-> [i \in 1..Len(BucketKeys) |->
                  c.latency_counts[status_label][BucketKeys[i]]],
   inf |-> c.latency_total_counts[status_label],
   sum |-> c.latency_sums[status_label]]

\* the families built from the counts of the last whole minute
MinuteFamilies(c, last_min) ==
  <<Family("pihole_query_type_1m", c.type_cnt, EmptyMap, last_min),
    Family("pihole_query_status_1m", c.status_cnt, EmptyMap, last_min),
    Family("pihole_query_reply_1m", c.reply_cnt, EmptyMap, last_min),
    Family("pihole_query_client_1m", c.client_cnt, EmptyMap, last_min),
    Family("pihole_query_upstream_1m", c.upstream_cnt, EmptyMap, last_min),
    Family("pihole_dns_timeouts_1m", ("" :> c.timeout_cnt), EmptyMap, last_min),
    Family("pihole_dns_errors_1m", CompleteErrorCounts(c), EmptyMap, last_min),
    Family("pihole_dns_queries_processed_1m",
           ("" :> c.total_queries_processed), EmptyMap, last_min)>>
  \o (IF DOMAIN c.latency_counts # {}
      THEN <<Family("pihole_dns_latency_seconds_1m", EmptyMap,
                    [l \in DOMAIN c.latency_counts |-> Histogram(c, l)], NoTs)>>
      ELSE <<>>)

\* the families of _collect_system_metrics
SystemFamilies == <<Family("system_metrics", EmptyMap, EmptyMap, NoTs)>>

\* collect(): one scrape, from the first fetch to the end of the generator
Collect ==
  LET seq == 1 - scrape.seq
      now == clock
      last_min == (now \div 60) * 60
      stop(stage, c, fams, batch, cleared) ==
        /\ collector' = c
        /\ emitted' = fams
        /\ scrape' = [seq |-> seq, stage |-> stage,
                      unauthorized |-> Rejected(collector, apiSessions),
                      batch |-> batch, last |-> NoQuery, cleared |-> cleared]
  IN
  /\ \E r1 \in Answers(collector, apiSessions) :
       IF ~MetricsGetApiCallOk(r1) \/ r1.body # "json"
       THEN stop("summary", collector, <<>>, <<>>, NoScrape.cleared)
       ELSE \E r2 \in Answers(collector, apiSessions) :
         IF ~MetricsGetApiCallOk(r2) \/ r2.body # "json"
         THEN stop("upstreams", collector, SummaryFamilies, <<>>,
                   NoScrape.cleared)
         ELSE \E r3 \in Answers(collector, apiSessions) :
           IF ~MetricsGetApiCallOk(r3)
           THEN stop("queries", collector, Append(SummaryFamilies, UpstreamsFamily),
                     <<>>, NoScrape.cleared)
           ELSE LET c0 == ClearCnts(collector) IN
             IF r3.body # "json"        \* reply["queries"] raises KeyError
             THEN stop("ingest", c0, Append(SummaryFamilies, UpstreamsFamily),
                       <<>>, Snapshot(c0))
             ELSE \E batch \in Batches :
               LET r == ProcessAll(c0, batch, now, resolver) IN
               IF r.raised
               THEN stop("ingest", r.c, Append(SummaryFamilies, UpstreamsFamily),
                         batch, Snapshot(c0))
               ELSE stop("done", r.c,
                         Append(SummaryFamilies, UpstreamsFamily)
                           \o MinuteFamilies(r.c, last_min) \o SystemFamilies,
                         batch, Snapshot(c0))
  /\ UNCHANGED <<unitVars, logVars, apiSessions, resolver, threads>>

\* the upstream drops the session (it expired or was deleted)
ExpireSession ==
  /\ apiSessions # {}
  /\ apiSessions' = {}
  /\ UNCHANGED <<unitVars, logVars, collector, resolver, emitted, scrape, threads>>

(***************************************************************************)
(* collect() in the threads of the HTTP server: two scrapes share the      *)
(* collector; a thread can be preempted between the fetch, clear_cnts,     *)
(* each _process_query and the construction of the 1-minute families       *)
(***************************************************************************)
Threads == {1, 2}

IdleThread ==
  [pc |-> "idle", stage |-> "none", hasQueries |-> FALSE, queries |-> <<>>,
   next |-> 1, emitted |-> <<>>]

\* the three get_api_call of collect(); the families of the first two are
\* yielded before the third is made
ScrapeFetch(t) ==
  LET stop(stage, fams) ==
        threads' = [threads EXCEPT ![t] =
                      [@ EXCEPT !.pc = "done", !.stage = stage, !.emitted = fams]]
      go(hasQueries, batch) ==
        threads' = [threads EXCEPT ![t] =
                      [pc |-> "reset", stage |-> "none", hasQueries |-> hasQueries,
                       queries |-> batch, next |-> 1,
                       emitted |-> Append(SummaryFamilies, UpstreamsFamily)]]
  IN
  /\ threads[t].pc = "idle"
  /\ \E r1 \in Answers(collector, apiSessions) :
       IF ~MetricsGetApiCallOk(r1) \/ r1.body # "json"
       THEN stop("summary", <<>>)
       ELSE \E r2 \in Answers(collector, apiSessions) :
         IF ~MetricsGetApiCallOk(r2) \/ r2.body # "json"
         THEN stop("upstreams", SummaryFamilies)
         ELSE \E r3 \in Answers(collector, apiSessions) :
           IF ~MetricsGetApiCallOk(r3)
           THEN stop("queries", Append(SummaryFamilies, UpstreamsFamily))
           ELSE IF r3.body # "json"
                THEN go(FALSE, <<>>)
                ELSE \E batch \in Batches : go(TRUE, batch)
  /\ UNCHANGED <<unitVars, logVars, collector, apiSessions, resolver, emitted, scrape>>

\* self.clear_cnts(), then reply["queries"]
ScrapeReset(t) ==
  /\ threads[t].pc = "reset"
  /\ collector' = ClearCnts(collector)
  /\ threads' = [threads EXCEPT ![t] =
                   IF @.hasQueries THEN [@ EXCEPT !.pc = "ingest"]
                   ELSE [@ EXCEPT !.pc = "done", !.stage = "ingest"]]
  /\ UNCHANGED <<unitVars, logVars, apiSessions, resolver, emitted, scrape>>

\* one turn of the loop over reply["queries"]
ScrapeIngest(t) ==
  /\ threads[t].pc = "ingest"
  /\ threads[t].next <= Len(threads[t].queries)
  /\ LET r == ProcessQuery(collector, threads[t].queries[threads[t].next],
                           clock, resolver)
     IN /\ collector' = r.c
        /\ threads' = [threads EXCEPT ![t] =
                         IF r.raised
                         THEN [@ EXCEPT !.pc = "done", !.stage = "ingest"]
                         ELSE [@ EXCEPT !.next = @ + 1]]
  /\ UNCHANGED <<unitVars, logVars, apiSessions, resolver, emitted, scrape>>

\* the 1-minute families are built from the tables and yielded
ScrapeEmit(t) ==
  /\ threads[t].pc = "ingest"
  /\ threads[t].next > Len(threads[t].queries)
  /\ threads' = [threads EXCEPT ![t] =
                   [@ EXCEPT !.pc = "done", !.stage = "done",
                             !.emitted = @ \o MinuteFamilies(collector,
                                                             (clock \div 60) * 60)
                                           \o SystemFamilies]]
  /\ UNCHANGED <<unitVars, logVars, collector, apiSessions, resolver, emitted, scrape>>

(***************************************************************************)
(* _process_query on records of every status, reply time and rcode: one    *)
(* scrape from clear_cnts to the 1-minute families, record by record       *)
(***************************************************************************)
MaxIngest == 2         \* number of records ingested after the reset

\* the status values of the latency table, and two that are not in it
AllStatuses ==
  {"CACHE", "CACHE_STALE", "FORWARDED", "GRAVITY", "REGEX", "DENYLIST",
   "GRAVITY_CNAME", "REGEX_CNAME", "DENYLIST_CNAME", "EXTERNAL_BLOCKED_IP",
   "EXTERNAL_BLOCKED_NULL", "EXTERNAL_BLOCKED_NXRA", "EXTERNAL_BLOCKED_EDE15",
   "SPECIAL_DOMAIN", "RETRIED", "RETRIED_DNSSEC", "IN_PROGRESS", "DBBUSY",
   "UNKNOWN", "TIMEOUT", "NEW_STATUS"}

\* reply times: negative, zero, on a bucket boundary, between boundaries,
\* above the largest boundary, null, not a number, key absent
ReplyTimes ==
  {Num(-1), Num(0), Num(10), Num(250), Num(250001), NullTime, TextTime, NoTimeKey}

\* rcodes: success, timeout, an error, empty, null, key absent
Rcodes == {"NOERROR", "TIMEOUT", "SERVFAIL", "", None, Missing}

\* records that lack one field: type, status, reply type, client ip, upstream
IncompleteRecords ==
  {Query(Missing, "FORWARDED", "IP", Num(250), "10.0.0.2", "8.8.8.8#53", "NOERROR"),
   Query("A", Missing, "IP", Num(250), "10.0.0.2", "8.8.8.8#53", "NOERROR"),
   Query("A", "FORWARDED", Missing, Num(250), "10.0.0.2", "8.8.8.8#53", "NOERROR"),
   Query("A", "FORWARDED", "IP", Num(250), Missing, "8.8.8.8#53", "NOERROR"),
   Query("A", "FORWARDED", "IP", Num(250), "10.0.0.2", Missing, "NOERROR")}

\* statuses of the records that come without upstream (null)
NullUpstreamStatuses == {"GRAVITY", "CACHE", "SPECIAL_DOMAIN", "REGEX", "FORWARDED"}

\* the records handed to _process_query: every status, every reply time,
\* every rcode, the rcodes that count with status TIMEOUT, records whose
\* upstream is null, and a record of another upstream
IngestRecords ==
  {Query("A", st, "IP", Num(250), "10.0.0.2", None, "NOERROR") :
     st \in NullUpstreamStatuses}
  \cup IncompleteRecords
  \cup {Query("A", "FORWARDED", "IP", Num(250), "10.0.0.2", "1.1.1.1#53", "NOERROR")}
  \cup
  {Query("A", st, "IP", Num(250), "10.0.0.2", "8.8.8.8#53", "NOERROR") :
     st \in AllStatuses}
  \cup {Query("A", "FORWARDED", "IP", rt, "10.0.0.2", "8.8.8.8#53", "NOERROR") :
          rt \in ReplyTimes}
  \cup {Query("A", "FORWARDED", "IP", Num(250), "10.0.0.2", "8.8.8.8#53", rc) :
          rc \in Rcodes}
  \cup {Query("A", "TIMEOUT", "IP", Num(-1), "10.0.0.2", "8.8.8.8#53", rc) :
          rc \in {"TIMEOUT", "SERVFAIL"}}

\* a collector that was never scraped, and one that has been: its last
\* scrape counted a blocked query and a timeout
PriorCollectors ==
  {NewCollector(None),
   ProcessAll(NewCollector(None),
              <<Query("AAAA", "GRAVITY", "NODATA", Num(3), "10.0.0.3", None, "NOERROR"),
                Query("A", "FORWARDED", "UNKNOWN", Num(-1), "10.0.0.2",
                      "8.8.8.8#53", "TIMEOUT")>>,
              ClockBase, [ip \in IPs |-> LookupFailed]).c}

\* collect(): self.clear_cnts()
ClearStep ==
  /\ scrape.stage = "none"
  /\ collector' = ClearCnts(collector)
  /\ scrape' = [scrape EXCEPT !.stage = "reset",
                              !.cleared = Snapshot(ClearCnts(collector))]
  /\ UNCHANGED <<unitVars, logVars, apiSessions, resolver, emitted, threads>>

\* collect(): self._process_query(q) for one more record of the reply;
\* batch keeps the records for which it returned
ProcessStep ==
  /\ scrape.stage = "reset"
  /\ Len(scrape.batch) < MaxIngest
  /\ \E q \in IngestRecords :
       LET r == ProcessQuery(collector, q, clock, resolver) IN
       /\ collector' = r.c
       /\ scrape' = IF r.raised
                    THEN [scrape EXCEPT !.stage = "ingest", !.last = q]
                    ELSE [scrape EXCEPT !.batch = Append(@, q), !.last = q]
  /\ UNCHANGED <<unitVars, logVars, apiSessions, resolver, emitted, threads>>

\* collect(): the 1-minute families are built from the tables and yielded
EmitStep ==
  /\ scrape.stage = "reset"
  /\ emitted' = MinuteFamilies(collector, (clock \div 60) * 60)
  /\ scrape' = [scrape EXCEPT !.stage = "done"]
  /\ UNCHANGED <<unitVars, logVars, collector, apiSessions, resolver, threads>>

\* the collector as registered by __main__
MetricsInit ==
  /\ \E key \in {None, "key"} :
       /\ collector = NewCollector(key)
       /\ apiSessions = IF key # None THEN {"sid"} ELSE {}
  /\ resolver \in DnsWorlds
  /\ emitted = <<>>
  /\ scrape = NoScrape
  /\ threads = [t \in Threads |-> IdleThread]

\* no collector is scraped
MetricsIdle ==
  /\ collector = NewCollector(None)
  /\ apiSessions = {}
  /\ resolver = [ip \in IPs |-> LookupFailed]
  /\ emitted = <<>>
  /\ scrape = NoScrape
  /\ threads = [t \in Threads |-> IdleThread]

(***************************************************************************)
(* Log exporter: format_for_loki, one turn of its loop at a time           *)
(***************************************************************************)
MaxFormat == 3         \* number of records in the batch handed to format_for_loki

\* q['time']: a number (in tenths of a second), or null / key absent
Secs(tenths) == [kind |-> "number", tenths |-> tenths]
NoTime == [kind |-> "none", tenths |-> 0]

\* not q_ts
Falsy(time) == time.kind = "none" \/ time.tenths = 0

\* int(float(q_ts)), for q_ts >= 0
IntFloat(time) == time.tenths \div 10

\* the decimal digits of 10 * n, from the decimal digits of n
TimesTen(digits) == IF digits = <<"0">> THEN digits ELSE digits \o <<"0">>

RECURSIVE TimesTenPower(_, _)
TimesTenPower(digits, k) ==
  IF k = 0 THEN digits ELSE TimesTenPower(TimesTen(digits), k - 1)

TsNsMicro(q_ts) == TimesTenPower(PyStr(q_ts), 6)

\* str(q_ts * 1_000_000_000), for q_ts >= 0
TsNs(q_ts) == TimesTenPower(PyStr(q_ts), 9)

\* a query record of the upstream API as the log exporter reads it; ip is
\* Missing when the record has no client, type is Missing when it has no
\* type; name is the client's name as the upstream gives it (null here)
LogRecord(id, time, ip, type, status, domain) ==
  [id |-> id, time |-> time, ip |-> ip,
   name |-> IF ip = Missing THEN Missing ELSE None,
   type |-> type, status |-> status, domain |-> domain]

\* PiholeLogsExporter.resolve_hostname
LogsResolveHostname(cache, ip, now, answer) ==
  IF ip \in DOMAIN cache /\ now - cache[ip].at < CACHE_TTL
  THEN [hostname |-> cache[ip].name, cache |-> cache, lookup |-> FALSE]
  ELSE LET hostname == IF answer.ok /\ answer.fqdn # <<>>
                       THEN Head(answer.fqdn) ELSE ip
       IN [hostname |-> hostname,
           cache |-> [k \in DOMAIN cache \cup {ip} |->
                        IF k = ip THEN [name |-> hostname, at |-> now]
                        ELSE cache[k]],
           lookup |-> TRUE]

\* q.get(key, 'unknown')
GetOrUnknown(v) == IF v = Missing THEN "unknown" ELSE v

\* self.host
Host == "localhost"

\* stream_labels
StreamLabels(q, client_ip, client_name) ==
  [job |-> "pihole_logs_exporter",
   service |-> "pihole_query_log",
   host |-> Host,
   client_ip |-> client_ip,
   client_name |-> client_name,
   type |-> GetOrUnknown(q.type),
   status |-> GetOrUnknown(q.status),
   domain |-> GetOrUnknown(q.domain)]

FindStreamByClient(streams, stream_labels) ==
  IF \E g \in 1..Len(streams) : streams[g].stream.client_ip = stream_labels.client_ip
  THEN CHOOSE g \in 1..Len(streams) :
         streams[g].stream.client_ip = stream_labels.client_ip
  ELSE 0

\* labels_tuple in streams: the position of its entry in the dict, 0 if none
FindStream(streams, stream_labels) ==
  IF \E g \in 1..Len(streams) : streams[g].stream = stream_labels
  THEN CHOOSE g \in 1..Len(streams) : streams[g].stream = stream_labels
  ELSE 0

\* json.dumps(self._flatten_dict(q)), q['client']['name'] being set when the
\* record has a client
LogLine(q, client_name) ==
  [id |-> q.id, time |-> q.time, client_ip |-> q.ip,
   client_name |-> IF q.ip = Missing THEN Missing ELSE client_name,
   type |-> q.type, status |-> q.status, domain |-> q.domain]

SkipRecordBreak(f) == [f EXCEPT !.i = Len(f.queries) + 1]

\* continue
SkipRecord(f) == [f EXCEPT !.i = @ + 1]

MaxTimestampLast(max_timestamp, q_ts) == q_ts

\* max(max_timestamp, q_ts)
MaxTimestamp(max_timestamp, q_ts) ==
  IF q_ts > max_timestamp THEN q_ts ELSE max_timestamp

\* format_for_loki: one turn of the loop, on the record q; dns[ip] is what
\* gethostbyaddr(ip) gives, and it raises for what is not an address
FormatRecord(f, q, now, dns) ==
  IF Falsy(q.time) THEN SkipRecord(f)
  ELSE
    LET q_ts == IntFloat(q.time)
        client_ip == GetOrUnknown(q.ip)
        r == LogsResolveHostname(f.hostname_cache, client_ip, now,
                                 IF client_ip \in DOMAIN dns THEN dns[client_ip]
                                 ELSE LookupFailed)
        stream_labels == StreamLabels(q, client_ip, r.hostname)
        value == [ts_ns |-> TsNs(q_ts), log_line |-> LogLine(q, r.hostname)]
        g == FindStream(f.streams, stream_labels)
    IN [f EXCEPT
          !.i = @ + 1,
          !.queries = IF q.ip = Missing THEN @      \* 'client' in q
                      ELSE [@ EXCEPT ![f.i].name = r.hostname],
          !.max_timestamp = MaxTimestamp(@, q_ts),
          !.hostname_cache = r.cache,
          !.streams = IF g = 0
                      THEN Append(@, [stream |-> stream_labels, values |-> <<value>>])
                      ELSE [@ EXCEPT ![g].values = Append(@, value)]]

\* the records format_for_loki is given: with and without time, whole and
\* fractional seconds, two clients and none, two domains, with and without
\* type
FormatSamples ==
  {<<Secs(10 * ClockBase), "10.0.0.2", "A", "FORWARDED", "a.example">>,
   <<Secs(10 * ClockBase + 15), "10.0.0.2", "A", "FORWARDED", "a.example">>,
   <<Secs(10 * ClockBase + 5), "10.0.0.2", "A", "FORWARDED", "b.example">>,
   <<Secs(10 * ClockBase + 20), "10.0.0.3", "A", "FORWARDED", "a.example">>,
   <<Secs(10 * ClockBase + 10), "10.0.0.2", "A", "GRAVITY", "a.example">>,
   <<Secs(10 * ClockBase + 10), Missing, Missing, "FORWARDED", "a.example">>,
   <<NoTime, "10.0.0.2", "A", "FORWARDED", "a.example">>}

\* reply["queries"]: up to MaxFormat records, numbered in the order of the reply
FormatBatches ==
  UNION {{[i \in 1..n |-> LogRecord(i, s[i][1], s[i][2], s[i][3], s[i][4], s[i][5])] :
            s \in [1..n -> FormatSamples]} : n \in 0..MaxFormat}

\* format_for_loki is entered with queries: streams = {}, max_timestamp = 0
FormatCall(qs) ==
  [queries |-> qs, fetched |-> qs, i |-> 1, streams |-> <<>>,
   max_timestamp |-> 0, hostname_cache |-> EmptyMap, returned |-> FALSE]

\* format_for_loki is not running
NoFormat == FormatCall(<<>>)

\* for q in queries: one more turn
FormatStep ==
  /\ fmtCall.i <= Len(fmtCall.queries)
  /\ fmtCall' = FormatRecord(fmtCall, fmtCall.queries[fmtCall.i], clock, resolver)
  /\ UNCHANGED <<callVars, logVars, metricsVars, resolved, window>>

\* return list(streams.values()), max_timestamp
FormatReturn ==
  /\ fmtCall.i > Len(fmtCall.queries)
  /\ ~fmtCall.returned
  /\ fmtCall' = [fmtCall EXCEPT !.returned = TRUE]
  /\ UNCHANGED <<callVars, logVars, metricsVars, resolved, window>>

(***************************************************************************)
(* Metrics collector: resolve_hostname, call after call as time passes     *)
(***************************************************************************)
MaxElapse == 2         \* number of times the clock moves between the calls

\* how far the clock moves between two calls
ElapseSteps == {1, CACHE_TTL - 1, CACHE_TTL}

\* what gethostbyaddr does when it is called: it raises, or gives a name, or
\* gives an empty name
LookupAnswers == {LookupFailed, Resolved(<<"nas", "lan">>), Resolved(<<>>)}

\* no call of resolve_hostname has been made; cached is the entry the call
\* found, last[ip] is the time of the last gethostbyaddr(ip)
NoResolved ==
  [seq |-> 0, ip |-> None, cached |-> [name |-> None, at |-> NoTs],
   hostname |-> None, lookup |-> FALSE, answer |-> LookupFailed,
   last |-> [ip \in IPs |-> NoTs], elapsed |-> 0]

\* self.resolve_hostname(ip)
ResolveCall ==
  /\ \E ip \in IPs, answer \in LookupAnswers :
       LET r == ResolveHostname(collector.hostname_cache, ip, clock, answer) IN
       /\ ~r.lookup => answer = LookupFailed
       /\ collector' = [collector EXCEPT !.hostname_cache = r.cache]
       /\ resolved' = [resolved EXCEPT
                         !.seq = 1 - @, !.ip = ip, !.hostname = r.hostname,
                         !.cached = IF ip \in DOMAIN collector.hostname_cache
                                    THEN collector.hostname_cache[ip]
                                    ELSE NoResolved.cached,
                         !.lookup = r.lookup, !.answer = answer,
                         !.last = IF r.lookup THEN [@ EXCEPT ![ip] = clock] ELSE @]
  /\ UNCHANGED <<callVars, logVars, fmtCall, window, apiSessions, resolver, emitted, scrape,
                 threads>>

\* time passes between two calls
Elapse ==
  /\ resolved.elapsed < MaxElapse
  /\ \E d \in ElapseSteps : clock' = clock + d
  /\ resolved' = [resolved EXCEPT !.elapsed = @ + 1]
  /\ UNCHANGED <<stateFile, queriesDb, pushed, cursorHigh, pc, loki_target,
                 using_auth, sid, last_ts, current_ts, queries, to_write,
                 to_send, fileAtStart, fetchResp, pushResp, wrote, logoutResp,
                 metricsVars, fmtCall, window, callVars>>

(***************************************************************************)
(* Metrics collector: the 1-minute window of collect()                     *)
(***************************************************************************)
MaxTicks == 2          \* number of times the clock moves between the scrapes
MaxLogged == 2         \* number of queries the upstream logs

\* how far the clock moves: a second, from the twentieth second of a minute
\* to its last second, to the first second of the next minute, a minute
TickSteps == {1, 39, 40, 60}

WindowRolling(now) == [from |-> now - 60, until |-> now]

\* collect(): last_min = now // 60 * 60, min_before = last_min - 60, and the
\* request queries?from=min_before&until=last_min
Window(now) ==
  LET last_min == (now \div 60) * 60
      min_before == last_min - 60
  IN [from |-> min_before, until |-> last_min]

\* the queries the upstream logs
LoggedQueries ==
  {Query("A", "FORWARDED", "IP", Num(250), "10.0.0.2", "8.8.8.8#53", "NOERROR"),
   Query("AAAA", "GRAVITY", "NODATA", Num(3), "10.0.0.3", None, "NOERROR")}

RECURSIVE QueriesBetween(_, _, _)
\* the reply of the upstream to queries?from=..&until=..: the logged queries
\* whose time lies between from and until, in log order
QueriesBetween(log, from, until) ==
  IF log = <<>> THEN <<>>
  ELSE (IF Head(log).time >= from /\ Head(log).time <= until
        THEN <<Head(log).q>> ELSE <<>>)
       \o QueriesBetween(Tail(log), from, until)

\* no scrape has asked for a window, the upstream has logged nothing
NoWindow ==
  [now |-> NoTs, from |-> NoTs, until |-> NoTs, log |-> <<>>, seen |-> 0,
   ticks |-> 0]

\* time passes
WindowTick ==
  /\ window.ticks < MaxTicks
  /\ \E d \in TickSteps : clock' = clock + d
  /\ window' = [window EXCEPT !.ticks = @ + 1]
  /\ UNCHANGED <<stateFile, queriesDb, pushed, cursorHigh, pc, loki_target,
                 using_auth, sid, last_ts, current_ts, queries, to_write,
                 to_send, fileAtStart, fetchResp, pushResp, wrote, logoutResp,
                 metricsVars, fmtCall, resolved, callVars>>

\* the upstream answers a DNS query and logs it
WindowLog ==
  /\ Len(window.log) < MaxLogged
  /\ \E q \in LoggedQueries :
       window' = [window EXCEPT !.log = Append(@, [time |-> clock, q |-> q])]
  /\ UNCHANGED <<callVars, logVars, metricsVars, fmtCall, resolved>>

\* collect() when its fetches succeed: the window is computed from the
\* clock, the upstream replies with the queries it holds for the window,
\* the tables are reset, the reply is ingested and the families are built
WindowScrape ==
  LET now == clock
      w == Window(now)
      reply == QueriesBetween(window.log, w.from, w.until)
      c0 == ClearCnts(collector)
      r == ProcessAll(c0, reply, now, resolver)
  IN /\ collector' = r.c
     /\ emitted' = Append(SummaryFamilies, UpstreamsFamily)
                     \o MinuteFamilies(r.c, w.until) \o SystemFamilies
     /\ scrape' = [seq |-> 1 - scrape.seq, stage |-> "done",
                   unauthorized |-> FALSE, batch |-> reply, last |-> NoQuery,
                   cleared |-> Snapshot(c0)]
     /\ window' = [window EXCEPT !.now = now, !.from = w.from, !.until = w.until,
                                 !.seen = Len(window.log)]
     /\ UNCHANGED <<callVars, logVars, fmtCall, resolved, apiSessions, resolver, threads>>

\* neither format_for_loki, resolve_hostname nor the window is followed on
\* its own
(***************************************************************************)
(* get_api_call of both exporters, followed on its own                     *)
(***************************************************************************)
MaxCalls == 3          \* number of get calls followed

\* what the upstream, or a proxy in front of it, can answer to a GET: any
\* of these statuses, with a JSON document or with a body that is not JSON
GetStatuses == {200, 201, 203, 204, 304, 401, 404, 500, 503}
GetResponses ==
  {NoResponse} \cup [status : GetStatuses, body : {"json", "not_json"}]

Exporters == {"metrics", "logs"}

\* get_api_call of one exporter when the upstream answers resp: requests.get
\* is called once, outside any loop, and the call returns the decoded reply
\* (value) or raises
GetApiCall(exporter, resp) ==
  [requests |-> 1,
   value |-> IF exporter = "metrics" THEN MetricsGetApiCallOk(resp)
             ELSE LogsGetApiCallOk(resp)]

NoApiCall ==
  [seq |-> 0, exporter |-> "none", resp |-> NotSent, sent |-> 0,
   value |-> FALSE]

\* one exporter makes a get call
ApiGet ==
  /\ apiCall.seq < MaxCalls
  /\ \E x \in Exporters, resp \in GetResponses :
       LET r == GetApiCall(x, resp) IN
       apiCall' = [seq |-> apiCall.seq + 1, exporter |-> x, resp |-> resp,
                   sent |-> apiCall.sent + r.requests, value |-> r.value]
  /\ UNCHANGED <<logVars, metricsVars, fmtCall, resolved, window, cursorTrip, race>>

(***************************************************************************)
(* Cursor store: write_last_timestamp followed by read_last_timestamp      *)
(***************************************************************************)
MaxStamp == 12         \* small timestamps written: -MaxStamp..MaxStamp

\* timestamps handed to write_last_timestamp: around zero, around the
\* powers of ten and around the clock
TripTimestamps ==
  ((0 - MaxStamp)..MaxStamp)
  \cup {99, 100, 101, 0 - 100, ClockBase - 1, ClockBase, ClockBase + 1,
        0 - ClockBase}

NoTrip ==
  [stage |-> "idle", t |-> 0, before |-> NoFile, file |-> NoFile,
   outcome |-> "none", read |-> 0]

\* write_last_timestamp(t)
TripWrite ==
  /\ cursorTrip.stage = "start"
  /\ \E outcome \in WriteOutcomes :
       cursorTrip' =
         [cursorTrip EXCEPT
            !.stage = "written", !.outcome = outcome,
            !.file = WriteLastTimestamp(cursorTrip.before, cursorTrip.t,
                                        outcome)]
  /\ UNCHANGED <<logVars, metricsVars, fmtCall, resolved, window, apiCall, race>>

\* read_last_timestamp()
TripRead ==
  /\ cursorTrip.stage = "written"
  /\ cursorTrip' =
       [cursorTrip EXCEPT
          !.stage = "read", !.read = ReadLastTimestamp(cursorTrip.file, clock)]
  /\ UNCHANGED <<logVars, metricsVars, fmtCall, resolved, window, apiCall, race>>

\* no two cycles have overlapped and no cursor write has failed
NoRace == [overlapped |-> FALSE, writeFailed |-> FALSE]

CallsIdle == apiCall = NoApiCall /\ cursorTrip = NoTrip /\ race = NoRace

UnitIdle ==
  /\ fmtCall = NoFormat /\ resolved = NoResolved /\ window = NoWindow
  /\ CallsIdle

(***************************************************************************)
(* Log exporter: one process per export cycle (__main__ of                 *)
(* pihole6_logs_exporter.py): __init__, run(), logout().                   *)
(***************************************************************************)
\* the state file when the model starts: absent, empty, not a number, or the
\* cursor of a run one second ago (followed by a newline)
InitialFiles ==
  {NoFile, File(<<>>), File(<<"x", "1">>),
   File(PyStr(ClockBase - 1) \o <<"\n">>)}

LogsInit ==
  /\ clock = ClockBase
  /\ stateFile \in InitialFiles
  /\ queriesDb = <<>>
  /\ pushed = <<>>
  /\ cursorHigh = IF FileHoldsInt(stateFile) THEN FileInt(stateFile) ELSE NoTs
  /\ pc = [p \in Procs |-> "idle"]
  /\ loki_target = [p \in Procs |-> NoTarget]
  /\ using_auth = [p \in Procs |-> FALSE]
  /\ sid = [p \in Procs |-> None]
  /\ last_ts = [p \in Procs |-> NoTs]
  /\ current_ts = [p \in Procs |-> NoTs]
  /\ queries = [p \in Procs |-> <<>>]
  /\ to_write = [p \in Procs |-> NoTs]
  /\ to_send = [p \in Procs |-> <<>>]
  /\ fileAtStart = [p \in Procs |-> NotRead]
  /\ fetchResp = [p \in Procs |-> NotSent]
  /\ pushResp = [p \in Procs |-> NotSent]
  /\ wrote = [p \in Procs |-> FALSE]
  /\ logoutResp = [p \in Procs |-> NotSent]

storeVars == <<stateFile, cursorHigh>>
envVars == <<clock, queriesDb>>
localVars == <<last_ts, current_ts, queries, to_write, to_send, fileAtStart,
               fetchResp, pushResp, wrote>>
sessionVars == <<loki_target, using_auth, sid, logoutResp>>

\* __main__ and __init__: the exporter is constructed; with a key it logs in
\* (get_sid), and a failed login ends the process before run().
LaunchRun(p) ==
  /\ pc[p] = "idle"
  /\ \E target \in LaunchTargets, key \in {None, "key"}, login \in {"ok", "fail"} :
       /\ key = None => login = "ok"
       /\ IF login = "fail"
          THEN UNCHANGED <<pc, loki_target, using_auth, sid>>
          ELSE /\ pc' = [pc EXCEPT ![p] = "run"]
               /\ loki_target' = [loki_target EXCEPT ![p] = target]
               /\ using_auth' = [using_auth EXCEPT ![p] = (key # None)]
               /\ sid' = [sid EXCEPT ![p] = IF key # None THEN "sid" ELSE None]
  /\ UNCHANGED <<metricsVars, storeVars, envVars, localVars, pushed, logoutResp>>

\* the exporter of a cycle is started
Launch(p) == LaunchRun(p) /\ UNCHANGED unitVars

RunBeginNoFinally(p) ==
  /\ pc[p] = "run"
  /\ IF ~GetLokiUrl(loki_target[p]).ok
     THEN /\ pc' = [pc EXCEPT ![p] = "done"]
          /\ UNCHANGED <<last_ts, current_ts, fileAtStart>>
     ELSE LET last == ReadLastTimestamp(stateFile, clock) IN
          /\ fileAtStart' = [fileAtStart EXCEPT ![p] = stateFile]
          /\ last_ts' = [last_ts EXCEPT ![p] = last]
          /\ current_ts' = [current_ts EXCEPT ![p] = clock]
          /\ pc' = [pc EXCEPT ![p] = IF last >= clock THEN "logout" ELSE "fetch"]
  /\ UNCHANGED <<unitVars, metricsVars, storeVars, envVars, sessionVars, pushed, queries,
                 to_write, to_send, fetchResp, pushResp, wrote>>

RunBeginStrict(p) ==
  /\ pc[p] = "run"
  /\ IF ~GetLokiUrl(loki_target[p]).ok
     THEN /\ pc' = [pc EXCEPT ![p] = "logout"]
          /\ UNCHANGED <<last_ts, current_ts, fileAtStart>>
     ELSE LET last == ReadLastTimestamp(stateFile, clock) IN
          /\ fileAtStart' = [fileAtStart EXCEPT ![p] = stateFile]
          /\ last_ts' = [last_ts EXCEPT ![p] = last]
          /\ current_ts' = [current_ts EXCEPT ![p] = clock]
          /\ pc' = [pc EXCEPT ![p] = IF last > clock THEN "logout" ELSE "fetch"]
  /\ UNCHANGED <<unitVars, metricsVars, storeVars, envVars, sessionVars, pushed, queries,
                 to_write, to_send, fetchResp, pushResp, wrote>>

\* run(), up to the decision to fetch: get_loki_url, read_last_timestamp,
\* current_ts, and the "last timestamp is current" return.
RunBegin(p) ==
  /\ pc[p] = "run"
  /\ IF ~GetLokiUrl(loki_target[p]).ok
     THEN /\ pc' = [pc EXCEPT ![p] = "logout"]
          /\ UNCHANGED <<last_ts, current_ts, fileAtStart>>
     ELSE LET last == ReadLastTimestamp(stateFile, clock) IN
          /\ fileAtStart' = [fileAtStart EXCEPT ![p] = stateFile]
          /\ last_ts' = [last_ts EXCEPT ![p] = last]
          /\ current_ts' = [current_ts EXCEPT ![p] = clock]
          /\ pc' = [pc EXCEPT ![p] = IF last >= clock THEN "logout" ELSE "fetch"]
  /\ UNCHANGED <<unitVars, metricsVars, storeVars, envVars, sessionVars, pushed, queries,
                 to_write, to_send, fetchResp, pushResp, wrote>>

\* run(): fetch_queries, the "no new queries" branch and format_for_loki
Fetch(p) ==
  /\ pc[p] = "fetch"
  /\ \E resp \in FetchResponses :
       /\ fetchResp' = [fetchResp EXCEPT ![p] = resp]
       /\ IF ~LogsGetApiCallOk(resp)
          THEN /\ pc' = [pc EXCEPT ![p] = "logout"]          \* raised
               /\ UNCHANGED <<queries, to_write, to_send>>
          ELSE LET qs == IF resp.body = "queries"
                         THEN FetchQueries(queriesDb, last_ts[p], current_ts[p])
                         ELSE <<>>                     \* reply.get("queries", [])
                   fmt == FormatForLoki(queriesDb, qs)
               IN /\ queries' = [queries EXCEPT ![p] = qs]
                  /\ IF qs = <<>> \/ fmt.values = <<>>
                     THEN /\ to_write' = [to_write EXCEPT ![p] = current_ts[p]]
                          /\ to_send' = to_send
                          /\ pc' = [pc EXCEPT ![p] = "write"]
                     ELSE /\ to_write' = [to_write EXCEPT ![p] = fmt.max_timestamp]
                          /\ to_send' = [to_send EXCEPT ![p] = fmt.values]
                          /\ pc' = [pc EXCEPT ![p] = "send"]
  /\ UNCHANGED <<unitVars, metricsVars, storeVars, envVars, sessionVars, pushed, last_ts,
                 current_ts, fileAtStart, pushResp, wrote>>

\* the sink keeps the pushed entries when it answers 2xx
Accept(counts, sent) ==
  [i \in 1..Len(counts) |->
     IF \E k \in 1..Len(sent) : sent[k] = i
     THEN (IF counts[i] < MaxPushCount THEN counts[i] + 1 ELSE counts[i])
     ELSE counts[i]]

\* run(): send_to_loki(loki_streams)
Send(p) ==
  /\ pc[p] = "send"
  /\ \E resp \in PushResponses :
       /\ pushResp' = [pushResp EXCEPT ![p] = resp]
       /\ pushed' = IF resp.status >= 200 /\ resp.status < 300
                    THEN Accept(pushed, to_send[p]) ELSE pushed
       /\ pc' = [pc EXCEPT ![p] = IF SendToLokiOk(resp) THEN "write" ELSE "logout"]
  /\ UNCHANGED <<unitVars, metricsVars, storeVars, envVars, sessionVars, last_ts, current_ts,
                 queries, to_write, to_send, fileAtStart, fetchResp, wrote>>

\* run(): write_last_timestamp(max_ts) or write_last_timestamp(current_ts)
WriteCursorRun(p) ==
  /\ pc[p] = "write"
  /\ \E outcome \in WriteOutcomes :
       LET file == WriteLastTimestamp(stateFile, to_write[p], outcome) IN
       /\ stateFile' = file
       /\ cursorHigh' = IF FileHoldsInt(file) THEN Max(cursorHigh, FileInt(file))
                        ELSE cursorHigh
  /\ wrote' = [wrote EXCEPT ![p] = TRUE]
  /\ pc' = [pc EXCEPT ![p] = "logout"]
  /\ UNCHANGED <<metricsVars, envVars, sessionVars, pushed, last_ts, current_ts,
                 queries, to_write, to_send, fileAtStart, fetchResp, pushResp>>

\* the write of a cycle
WriteCursor(p) == WriteCursorRun(p) /\ UNCHANGED unitVars

\* responses the upstream API can give to the logout request
LogoutResponses ==
  {NoResponse} \cup {[status |-> s, body |-> "none"] : s \in {200, 500}}

LogoutCallNoFinally(auth, s, resp) ==
  IF ~auth
  THEN [using_auth |-> auth, sid |-> s, sent |-> FALSE, raised |-> FALSE]
  ELSE IF resp = NoResponse \/ RaiseForStatus(resp)
       THEN [using_auth |-> auth, sid |-> s, sent |-> TRUE, raised |-> TRUE]
       ELSE [using_auth |-> FALSE, sid |-> None, sent |-> TRUE, raised |-> FALSE]

\* logout() on an exporter with fields using_auth = auth and sid = s, when
\* the upstream answers resp: the fields after the call, whether a request
\* was sent and whether the call raised.  A transport error and the
\* HTTPError of raise_for_status are RequestException, which the except
\* clause catches; the finally clause clears the fields.
LogoutCall(auth, s, resp) ==
  IF ~auth
  THEN [using_auth |-> auth, sid |-> s, sent |-> FALSE, raised |-> FALSE]
  ELSE [using_auth |-> FALSE, sid |-> None, sent |-> TRUE, raised |-> FALSE]

\* logout(), called from the finally clause of run()
Logout(p) ==
  /\ pc[p] = "logout"
  /\ \E resp \in LogoutResponses :
       LET r == LogoutCall(using_auth[p], sid[p], resp) IN
       /\ sid' = [sid EXCEPT ![p] = r.sid]
       /\ using_auth' = [using_auth EXCEPT ![p] = r.using_auth]
       /\ logoutResp' = [logoutResp EXCEPT ![p] = IF r.sent THEN resp ELSE NotSent]
       /\ pc' = [pc EXCEPT ![p] = IF r.raised THEN "raised" ELSE "done"]
  /\ UNCHANGED <<unitVars, metricsVars, storeVars, envVars, localVars, pushed, loki_target>>

\* the process ends
Exit(p) ==
  /\ pc[p] \in {"done", "raised"}
  /\ pc' = [pc EXCEPT ![p] = "idle"]
  /\ loki_target' = [loki_target EXCEPT ![p] = NoTarget]
  /\ using_auth' = [using_auth EXCEPT ![p] = FALSE]
  /\ sid' = [sid EXCEPT ![p] = None]
  /\ logoutResp' = [logoutResp EXCEPT ![p] = NotSent]
  /\ last_ts' = [last_ts EXCEPT ![p] = NoTs]
  /\ current_ts' = [current_ts EXCEPT ![p] = NoTs]
  /\ queries' = [queries EXCEPT ![p] = <<>>]
  /\ to_write' = [to_write EXCEPT ![p] = NoTs]
  /\ to_send' = [to_send EXCEPT ![p] = <<>>]
  /\ fileAtStart' = [fileAtStart EXCEPT ![p] = NotRead]
  /\ fetchResp' = [fetchResp EXCEPT ![p] = NotSent]
  /\ pushResp' = [pushResp EXCEPT ![p] = NotSent]
  /\ wrote' = [wrote EXCEPT ![p] = FALSE]
  /\ UNCHANGED <<unitVars, metricsVars, storeVars, envVars, pushed>>

\* a second passes
Tick ==
  /\ clock < ClockBase + MaxTime
  /\ clock' = clock + 1
  /\ UNCHANGED <<unitVars, metricsVars, storeVars, queriesDb, pushed, pc, sessionVars,
                 localVars>>

\* the upstream logs a query, stamped with the current second; hasTime tells
\* whether the record it returns carries a (non-zero) 'time' field
LogQuery ==
  /\ Len(queriesDb) < MaxRecords
  /\ \E hasTime \in BOOLEAN :
       queriesDb' = Append(queriesDb, [time |-> clock, hasTime |-> hasTime])
  /\ pushed' = Append(pushed, 0)
  /\ UNCHANGED <<unitVars, metricsVars, storeVars, clock, pc, sessionVars, localVars>>

\* the external scheduler starts one run at a time
SequentialLaunch == (\A q \in Procs : pc[q] = "idle") /\ Launch(1)

Init == LogsInit /\ MetricsIdle /\ UnitIdle

Next ==
  \/ SequentialLaunch
  \/ \E p \in Procs : RunBegin(p)
  \/ \E p \in Procs : Fetch(p)
  \/ \E p \in Procs : Send(p)
  \/ \E p \in Procs : WriteCursor(p)
  \/ \E p \in Procs : Logout(p)
  \/ \E p \in Procs : Exit(p)
  \/ Tick
  \/ LogQuery

Spec == Init /\ [][Next]_vars

\* no exporter process runs
LogsIdle == LogsInit /\ stateFile = NoFile

InitMetrics == MetricsInit /\ LogsIdle /\ UnitIdle

NextMetrics ==
  \/ Collect
  \/ ExpireSession

SpecMetrics == InitMetrics /\ [][NextMetrics]_vars

NextConcurrent ==
  \/ \E t \in Threads : ScrapeFetch(t)
  \/ \E t \in Threads : ScrapeReset(t)
  \/ \E t \in Threads : ScrapeIngest(t)
  \/ \E t \in Threads : ScrapeEmit(t)

SpecConcurrent == InitMetrics /\ [][NextConcurrent]_vars

InitIngest ==
  /\ LogsIdle
  /\ UnitIdle
  /\ collector \in PriorCollectors
  /\ apiSessions = {}
  /\ resolver = [ip \in IPs |-> LookupFailed]
  /\ emitted = <<>>
  /\ scrape = NoScrape
  /\ threads = [t \in Threads |-> IdleThread]

NextIngest ==
  \/ ClearStep
  \/ ProcessStep
  \/ EmitStep

SpecIngest == InitIngest /\ [][NextIngest]_vars

InitFormat ==
  /\ LogsIdle
  /\ collector = NewCollector(None)
  /\ apiSessions = {}
  /\ resolver \in DnsWorlds
  /\ emitted = <<>>
  /\ scrape = NoScrape
  /\ threads = [t \in Threads |-> IdleThread]
  /\ fmtCall \in {FormatCall(qs) : qs \in FormatBatches}
  /\ resolved = NoResolved
  /\ window = NoWindow
  /\ CallsIdle

NextFormat ==
  \/ FormatStep
  \/ FormatReturn

SpecFormat == InitFormat /\ [][NextFormat]_vars

InitResolve == LogsIdle /\ MetricsIdle /\ UnitIdle

NextResolve ==
  \/ ResolveCall
  \/ Elapse

SpecResolve == InitResolve /\ [][NextResolve]_vars

InitWindow == LogsIdle /\ MetricsIdle /\ UnitIdle

NextWindow ==
  \/ WindowTick
  \/ WindowLog
  \/ WindowScrape

SpecWindow == InitWindow /\ [][NextWindow]_vars


(***************************************************************************)
(* Properties of the log export cycle                                      *)
(***************************************************************************)
CycleEnded(p) == pc[p] \in {"logout", "done"}
HasRead(p) == fileAtStart[p] # NotRead

\* a response that is a transport error or carries a non-2xx status
Failed(resp) ==
  resp # NotSent /\ (resp = NoResponse \/ resp.status < 200 \/ resp.status >= 300)

\* C1: across any sequence of export cycles the timestamp held by the cursor
\* file never decreases: whenever the file holds a timestamp, it is at least
\* every timestamp the file held before.
C1_CursorNeverDecreases ==
  FileHoldsInt(stateFile) => FileInt(stateFile) >= cursorHigh

\* C2: in a cycle whose fetch failed or whose push failed (transport error or
\* non-2xx), write_last_timestamp is not called and the cursor file is as it
\* was when the cycle read it.
C2_FailedCycleKeepsCursor ==
  \A p \in Procs :
    (CycleEnded(p) /\ (Failed(fetchResp[p]) \/ Failed(pushResp[p])))
      => (~wrote[p] /\ stateFile = fileAtStart[p])

\* C3: between cycles, every timestamped upstream record at or below the
\* cursor has been pushed to the sink exactly once, and no record is ever
\* pushed twice.
C3_ExactlyOnce ==
  /\ \A i \in 1..Len(queriesDb) : pushed[i] <= 1
  /\ ((\A p \in Procs : pc[p] = "idle") /\ FileHoldsInt(stateFile))
       => \A i \in 1..Len(queriesDb) :
            (queriesDb[i].hasTime /\ queriesDb[i].time <= FileInt(stateFile))
              => pushed[i] = 1

\* files that are missing, empty or do not parse as an integer
UnreadableFiles == {NoFile, File(<<>>), File(<<"x", "1">>)}
CursorValues == (ClockBase - 1)..(ClockBase + MaxTime + 1)

C5_MissingFileReadsZero ==
  \A p \in Procs : (HasRead(p) /\ fileAtStart[p] = NoFile) => last_ts[p] = 0

(***************************************************************************)
(* Metrics collector: reset, ingestion, emission                           *)
(***************************************************************************)
CountTables == {"type_cnt", "status_cnt", "reply_cnt", "client_cnt", "upstream_cnt"}

\* the last scrape got as far as clear_cnts
DidReset == scrape.stage \in {"ingest", "done"}

\* a scrape has just run clear_cnts on the state of the unprimed collector
ResetStep == scrape'.seq # scrape.seq /\ scrape'.stage \in {"ingest", "done"}

FromFresh ==
  Snapshot(ProcessAll(ClearCnts(NewCollector(None)), scrape.batch, clock,
                      resolver).c)

C8_FailedScrapeEmitsNothing ==
  scrape.stage \in {"summary", "upstreams", "queries", "ingest"} => emitted = <<>>

\* the 1-minute tables of a collector that ingested only the batch of thread t
OwnBatch(t) ==
  Snapshot(ProcessAll(ClearCnts(NewCollector(None)), threads[t].queries, clock,
                      resolver).c)

\* the samples of the family called name among the families fams
SamplesOf(fams, name) ==
  LET i == CHOOSE j \in 1..Len(fams) : fams[j].name = name IN fams[i].samples

TableFamily ==
  [t \in CountTables |->
     CASE t = "type_cnt" -> "pihole_query_type_1m"
       [] t = "status_cnt" -> "pihole_query_status_1m"
       [] t = "reply_cnt" -> "pihole_query_reply_1m"
       [] t = "client_cnt" -> "pihole_query_client_1m"
       [] t = "upstream_cnt" -> "pihole_query_upstream_1m"]

\* C9: each of two concurrent scrapes emits 1-minute counts that are the
\* aggregation of the batch it fetched itself: every key of its batch is
\* emitted with the number of its records, every other emitted key is 0, and
\* the processed total is the size of its batch.
C9_ScrapeEmitsOwnBatch ==
  \A t \in Threads :
    threads[t].stage = "done" =>
      /\ \A tab \in CountTables :
           LET samples == SamplesOf(threads[t].emitted, TableFamily[tab])
               own == OwnBatch(t)[tab]
           IN /\ DOMAIN own \subseteq DOMAIN samples
              /\ \A k \in DOMAIN own : samples[k] = own[k]
              /\ \A k \in DOMAIN samples \ DOMAIN own : samples[k] = 0
      /\ SamplesOf(threads[t].emitted, "pihole_dns_queries_processed_1m")[""]
           = Len(threads[t].queries)

\* C10: once the upstream has rejected the stored session (a scrape was
\* answered 401), the collector has invalidated it: it does not go on holding
\* the session id the upstream rejects.
C10_RejectedSessionInvalidated ==
  scrape.unauthorized => ~Rejected(collector, apiSessions)

(***************************************************************************)
(* Log exporter: session                                                   *)
(***************************************************************************)
\* C11: logout never raises to its caller, whatever the answer to the logout
\* request, and when it is called on an authenticated exporter it sends the
\* request and returns with sid = None and using_auth false, whether the
\* request succeeded or failed.
C11_LogoutClearsSession ==
  [][\A p \in Procs :
       (pc[p] = "logout" /\ pc'[p] # "logout") =>
         /\ pc'[p] = "done"
         /\ using_auth[p] =>
              (sid'[p] = None /\ ~using_auth'[p] /\ logoutResp'[p] # NotSent)]_vars

\* logout returned after a logout request that failed
C11_Witness ==
  \E p \in Procs :
    /\ pc[p] = "done"
    /\ logoutResp[p] \in {NoResponse, [status |-> 500, body |-> "none"]}
    /\ sid[p] = None
    /\ ~using_auth[p]

\* C12: every exit path of a cycle (invalid sink configuration, cursor
\* already current, zero records, publish success, a raised error) passes
\* through logout, which sends the logout request if the exporter is
\* authenticated; the cycle never returns holding an authenticated session.
C12_EveryExitLogsOut ==
  [][\A p \in Procs :
       /\ (pc[p] \notin {"done", "raised"} /\ pc'[p] \in {"done", "raised"}) =>
            /\ pc[p] = "logout"
            /\ using_auth[p] => logoutResp'[p] # NotSent
            /\ ~using_auth'[p] /\ sid'[p] = None
       /\ (pc[p] # "idle" /\ pc'[p] = "idle") =>
            /\ pc[p] \in {"done", "raised"}
            /\ ~using_auth[p] /\ sid[p] = None]_vars

\* an authenticated cycle whose fetch raised has logged out
C12_Witness ==
  \E p \in Procs :
    /\ pc[p] = "done"
    /\ fetchResp[p] = NoResponse
    /\ logoutResp[p] = [status |-> 200, body |-> "none"]

\* C13: an exporter whose sink target is missing, empty, a bare path or
\* without http:// or https:// issues no network call: it holds no session
\* obtained by an authentication request, and sends no logout request, no
\* upstream fetch and no push.
C13_InvalidTargetNoNetworkCall ==
  \A p \in Procs :
    (pc[p] # "idle" /\ ~GetLokiUrl(loki_target[p]).ok) =>
      /\ ~using_auth[p] /\ sid[p] = None
      /\ logoutResp[p] = NotSent
      /\ fetchResp[p] = NotSent
      /\ pushResp[p] = NotSent

(***************************************************************************)
(* Metrics collector: _process_query, record by record                     *)
(***************************************************************************)
\* _process_query was called on the record scrape'.last
IngestStep ==
  /\ scrape.stage = "reset"
  /\ \/ Len(scrape'.batch) = Len(scrape.batch) + 1
     \/ scrape'.stage = "ingest"

\* the call returned
Returned == Len(scrape'.batch) = Len(scrape.batch) + 1

\* the count a table holds for a key
CountOf(d, k) == IF k \in DOMAIN d THEN d[k] ELSE 0

\* _process_query read the five fields of the record scrape'.last and counted
\* it in the five tables
Counted ==
  /\ IngestStep
  /\ Missing \notin {scrape'.last.type, scrape'.last.status,
                     scrape'.last.reply_type, scrape'.last.ip,
                     scrape'.last.upstream}

\* table d2 is table d with 1 added under key k and nothing else changed
AddsOne(d, d2, k) ==
  /\ DOMAIN d2 = DOMAIN d \cup {k}
  /\ \A x \in DOMAIN d2 : d2[x] = CountOf(d, x) + (IF x = k THEN 1 ELSE 0)

LatencyClasses ==
  {"cache", "forwarded", "blocked", "retried", "in_progress", "other", "unknown"}

\* the fixed table of latency classes
ClassTable(status) ==
  CASE status \in {"CACHE", "CACHE_STALE"} -> "cache"
    [] status = "FORWARDED" -> "forwarded"
    [] status \in {"GRAVITY", "REGEX", "DENYLIST", "GRAVITY_CNAME", "REGEX_CNAME",
                   "DENYLIST_CNAME", "EXTERNAL_BLOCKED_IP",
                   "EXTERNAL_BLOCKED_NULL", "EXTERNAL_BLOCKED_NXRA",
                   "EXTERNAL_BLOCKED_EDE15", "SPECIAL_DOMAIN"} -> "blocked"
    [] status \in {"RETRIED", "RETRIED_DNSSEC"} -> "retried"
    [] status = "IN_PROGRESS" -> "in_progress"
    [] status \in {"DBBUSY", "UNKNOWN"} -> "other"
    [] OTHER -> "unknown"

\* the number of observations a collector holds for a latency class
Observations(c, class) ==
  IF class \in DOMAIN c.latency_total_counts
  THEN c.latency_total_counts[class] ELSE 0

\* C14: a record that has its fields and a usable reply time is classified
\* without raising into exactly one of the seven latency classes, the one the
\* fixed table gives for its status (unknown for a status that is not in the
\* table).
C14_LatencyClassification ==
  [][(Counted /\ scrape'.last.reply_time.kind = "number"
               /\ scrape'.last.reply_time.val >= 0) =>
       /\ Returned
       /\ DOMAIN collector'.latency_total_counts \subseteq LatencyClasses
       /\ \A class \in LatencyClasses :
            Observations(collector', class)
              = Observations(collector, class)
                + (IF class = ClassTable(scrape'.last.status) THEN 1 ELSE 0)]_vars

\* a record whose status is not in the table was classified as unknown, after
\* a record classified as blocked
C14_Witness ==
  /\ scrape.stage = "reset"
  /\ scrape.last.status = "NEW_STATUS"
  /\ Observations(collector, "unknown") = 1
  /\ Observations(collector, "blocked") = 1

\* the records of the batch that carry a usable reply time and whose status
\* the table routes to class (as indices of the batch)
Routed(class) ==
  {i \in 1..Len(scrape.batch) :
     /\ scrape.batch[i].reply_time.kind = "number"
     /\ scrape.batch[i].reply_time.val >= 0
     /\ ClassTable(scrape.batch[i].status) = class}

RECURSIVE SumReplyTimes(_)
SumReplyTimes(S) ==
  IF S = {} THEN 0
  ELSE LET i == CHOOSE x \in S : TRUE
       IN scrape.batch[i].reply_time.val + SumReplyTimes(S \ {i})

\* C15: after a reset and the ingestion of a batch, for every latency class
\* and every bucket boundary B the stored count at B is the number of
\* observations routed to the class with value <= B, and the running sum and
\* count of the class are the sum and the number of all its observations (a
\* class without observation has no accumulator).
C15_BucketsCountObservations ==
  scrape.stage # "none" =>
    \A class \in LatencyClasses :
      IF Routed(class) = {}
      THEN /\ class \notin DOMAIN collector.latency_counts
           /\ class \notin DOMAIN collector.latency_sums
           /\ class \notin DOMAIN collector.latency_total_counts
      ELSE /\ \A b \in 1..Len(latency_buckets) :
                collector.latency_counts[class][BucketKeys[b]]
                  = Cardinality({i \in Routed(class) :
                       scrape.batch[i].reply_time.val <= latency_buckets[b]})
           /\ collector.latency_sums[class] = SumReplyTimes(Routed(class))
           /\ collector.latency_total_counts[class] = Cardinality(Routed(class))

\* a class holds an observation on the smallest boundary and one above the
\* largest
C15_Witness ==
  /\ scrape.stage = "reset"
  /\ Observations(collector, "forwarded") = 2
  /\ collector.latency_counts["forwarded"]["0.0001"] = 1
  /\ collector.latency_counts["forwarded"]["2.5"] = 1
  /\ collector.latency_sums["forwarded"] = 250011

\* the histograms of the latency family among the families fams, by class
\* (none if the family was not emitted)
HistogramsOf(fams) ==
  IF \E j \in 1..Len(fams) : fams[j].name = "pihole_dns_latency_seconds_1m"
  THEN LET i == CHOOSE j \in 1..Len(fams) :
                  fams[j].name = "pihole_dns_latency_seconds_1m"
       IN fams[i].hist
  ELSE EmptyMap

\* C16: in the emitted latency histogram every class with observations has
\* its buckets, the bucket counts are non-decreasing in boundary order, the
\* count at the largest finite boundary is at most the class's number of
\* observations, and the +Inf bucket is exactly that number.
C16_HistogramCumulative ==
  scrape.stage = "done" =>
    /\ DOMAIN HistogramsOf(emitted) = {class \in LatencyClasses : Routed(class) # {}}
    /\ \A class \in DOMAIN HistogramsOf(emitted) :
         LET h == HistogramsOf(emitted)[class] IN
         /\ Len(h.buckets) = Len(latency_buckets)
         /\ \A b \in 1..(Len(h.buckets) - 1) : h.buckets[b] <= h.buckets[b + 1]
         /\ h.buckets[Len(h.buckets)] <= Cardinality(Routed(class))
         /\ h.inf = Cardinality(Routed(class))

\* a histogram was emitted whose +Inf bucket is above its largest finite one
C16_Witness ==
  /\ scrape.stage = "done"
  /\ "forwarded" \in DOMAIN HistogramsOf(emitted)
  /\ HistogramsOf(emitted)["forwarded"].inf = 2
  /\ HistogramsOf(emitted)["forwarded"].buckets[Len(latency_buckets)] = 1
  /\ HistogramsOf(emitted)["forwarded"].buckets[1] = 0

RECURSIVE SumObservations(_, _)
\* the observation counts of the classes S, added up
SumObservations(c, S) ==
  IF S = {} THEN 0
  ELSE LET class == CHOOSE x \in S : TRUE
       IN c.latency_total_counts[class] + SumObservations(c, S \ {class})

\* the records of the batch whose reply time is missing (null or not a
\* number) or negative
WithoutLatency ==
  {i \in 1..Len(scrape.batch) :
     \/ scrape.batch[i].reply_time.kind # "number"
     \/ scrape.batch[i].reply_time.val < 0}

C18_NoLatencyRecordStillCounted ==
  [][(IngestStep /\ \/ scrape'.last.reply_time.kind \in {"none", "missing"}
                    \/ /\ scrape'.last.reply_time.kind = "number"
                       /\ scrape'.last.reply_time.val < 0) =>
       LET q == scrape'.last IN
       /\ Returned
       /\ collector'.latency_counts = collector.latency_counts
       /\ collector'.latency_sums = collector.latency_sums
       /\ collector'.latency_total_counts = collector.latency_total_counts
       /\ CountOf(collector'.type_cnt, q.type) = CountOf(collector.type_cnt, q.type) + 1
       /\ CountOf(collector'.status_cnt, q.status)
            = CountOf(collector.status_cnt, q.status) + 1
       /\ CountOf(collector'.reply_cnt, q.reply_type)
            = CountOf(collector.reply_cnt, q.reply_type) + 1
       /\ CountOf(collector'.client_cnt, q.ip) = CountOf(collector.client_cnt, q.ip) + 1
       /\ CountOf(collector'.upstream_cnt, q.upstream)
            = CountOf(collector.upstream_cnt, q.upstream) + 1
       /\ collector'.total_queries_processed
            = collector.total_queries_processed + 1]_vars

\* the records of the batch that are timeouts
TimeoutRecords ==
  {i \in 1..Len(scrape.batch) :
     scrape.batch[i].rcode = "TIMEOUT" \/ scrape.batch[i].status = "TIMEOUT"}

\* C19: ingesting a record adds exactly 1 to the timeout count if its rcode
\* or its status is "TIMEOUT" and leaves it unchanged otherwise; after a
\* batch the count, and the emitted timeout gauge, are the number of such
\* records of the batch.
C19_TimeoutCount ==
  /\ [](scrape.stage # "none" =>
          /\ collector.timeout_cnt = Cardinality(TimeoutRecords)
          /\ scrape.stage = "done" =>
               SamplesOf(emitted, "pihole_dns_timeouts_1m")[""]
                 = Cardinality(TimeoutRecords))
  /\ [][(IngestStep /\ Returned) =>
          collector'.timeout_cnt
            = collector.timeout_cnt
              + (IF scrape'.last.rcode = "TIMEOUT" \/ scrape'.last.status = "TIMEOUT"
                 THEN 1 ELSE 0)]_vars

\* the gauge counts a record with rcode TIMEOUT and another status, and a
\* record with status TIMEOUT and another rcode
C19_Witness ==
  /\ scrape.stage = "done"
  /\ SamplesOf(emitted, "pihole_dns_timeouts_1m")[""] = 2
  /\ \E i \in 1..Len(scrape.batch) :
       scrape.batch[i].rcode = "TIMEOUT" /\ scrape.batch[i].status = "FORWARDED"
  /\ \E i \in 1..Len(scrape.batch) :
       scrape.batch[i].rcode = "NOERROR" /\ scrape.batch[i].status = "TIMEOUT"

\* an rcode that is present, not empty and not NOERROR
ErrorRcode(rcode) == rcode \notin {Missing, None, "", "NOERROR"}

\* C20: ingesting a record adds exactly 1 to the error table entry of its
\* rcode if the rcode is present, not empty and not "NOERROR", and leaves the
\* error table unchanged otherwise; after a batch the error table holds, for
\* each such rcode, the number of records of the batch that carry it, and
\* no other key.
C20_ErrorTable ==
  /\ [](scrape.stage # "none" =>
          /\ \A rcode \in DOMAIN collector.error_cnt : ErrorRcode(rcode)
          /\ \A rcode \in Rcodes :
               ErrorRcode(rcode) =>
                 CountOf(collector.error_cnt, rcode)
                   = Cardinality({i \in 1..Len(scrape.batch) :
                                    scrape.batch[i].rcode = rcode}))
  /\ [][(IngestStep /\ Returned) =>
          LET rcode == scrape'.last.rcode IN
          IF ErrorRcode(rcode)
          THEN /\ DOMAIN collector'.error_cnt = DOMAIN collector.error_cnt \cup {rcode}
               /\ \A k \in DOMAIN collector'.error_cnt :
                    collector'.error_cnt[k]
                      = CountOf(collector.error_cnt, k) + (IF k = rcode THEN 1 ELSE 0)
          ELSE collector'.error_cnt = collector.error_cnt]_vars

\* the error table counts two rcodes after a batch
C20_Witness ==
  /\ scrape.stage = "reset"
  /\ CountOf(collector.error_cnt, "SERVFAIL") = 1
  /\ CountOf(collector.error_cnt, "TIMEOUT") = 1
  /\ collector.total_queries_processed = 2

\* C21: a record with absent (null) upstream and status "GRAVITY" is counted
\* in the upstream table under the label "None-GRAVITY"; a record whose
\* upstream is present is counted under that upstream value unchanged.
C21_UpstreamLabelGravity ==
  [][Counted =>
       LET q == scrape'.last IN
       /\ (q.upstream = None /\ q.status = "GRAVITY") =>
            AddsOne(collector.upstream_cnt, collector'.upstream_cnt, "None-GRAVITY")
       /\ q.upstream # None =>
            AddsOne(collector.upstream_cnt, collector'.upstream_cnt, q.upstream)]_vars

\* a blocked record without upstream and a record of an upstream were counted
C21_Witness ==
  /\ scrape.stage = "reset"
  /\ Len(scrape.batch) = 2
  /\ CountOf(collector.upstream_cnt, "None-GRAVITY") = 1
  /\ CountOf(collector.upstream_cnt, "1.1.1.1#53") = 1

\* the synthetic labels as the data model of the specification words them
BlockedByLabel(status) ==
  CASE status = "GRAVITY" -> "blocked-by-GRAVITY"
    [] status = "CACHE" -> "blocked-by-CACHE"
    [] status = "SPECIAL_DOMAIN" -> "blocked-by-SPECIAL_DOMAIN"
    [] OTHER -> "unknown-other"

\* the synthetic labels "None-<status>" and "None-OTHER"
NoneLabel(status) ==
  CASE status = "GRAVITY" -> "None-GRAVITY"
    [] status = "CACHE" -> "None-CACHE"
    [] status = "SPECIAL_DOMAIN" -> "None-SPECIAL_DOMAIN"
    [] OTHER -> "None-OTHER"

\* C22: a record with absent upstream is counted under the label
\* "blocked-by-<status>" when its status is GRAVITY, CACHE or SPECIAL_DOMAIN,
\* and under the label "unknown-other" for every other status.
C22_BlockedByLabels ==
  [][(Counted /\ scrape'.last.upstream = None) =>
       AddsOne(collector.upstream_cnt, collector'.upstream_cnt,
               BlockedByLabel(scrape'.last.status))]_vars

\* C22 (amended): a record with absent (null) upstream is counted under the
\* label "None-<status>" when its status is GRAVITY, CACHE or SPECIAL_DOMAIN,
\* and under the label "None-OTHER" for every other status.
C22_NoneLabels ==
  [][(Counted /\ scrape'.last.upstream = None) =>
       AddsOne(collector.upstream_cnt, collector'.upstream_cnt,
               NoneLabel(scrape'.last.status))]_vars

\* a record of status SPECIAL_DOMAIN and a record of a status outside the
\* three, both without upstream, were counted
C22_Witness ==
  /\ scrape.stage = "reset"
  /\ Len(scrape.batch) = 2
  /\ scrape.batch[1].upstream = None /\ scrape.batch[1].status = "SPECIAL_DOMAIN"
  /\ scrape.batch[2].upstream = None /\ scrape.batch[2].status = "REGEX"
  /\ CountOf(collector.upstream_cnt, "None-SPECIAL_DOMAIN") = 1
  /\ CountOf(collector.upstream_cnt, "None-OTHER") = 1

(***************************************************************************)
(* Log exporter: format_for_loki                                           *)
(***************************************************************************)
\* the records the loop of format_for_loki has passed, and those of them it
\* did not skip (as positions in the batch)
Passed == 1..(fmtCall.i - 1)
Formatted == {j \in Passed : ~Falsy(fmtCall.queries[j].time)}

\* where the value of record j stands: <<group, position in the group>>
Places(j) ==
  {<<g, v>> \in (1..Len(fmtCall.streams)) \X (1..MaxFormat + 1) :
     /\ v <= Len(fmtCall.streams[g].values)
     /\ fmtCall.streams[g].values[v].log_line.id = j}

GroupOf(j) == (CHOOSE pl \in Places(j) : TRUE)[1]

\* the short name the resolver gives for an address, the address when it
\* gives none
ShortName(ip) ==
  IF ip \in DOMAIN resolver /\ resolver[ip].ok /\ resolver[ip].fqdn # <<>>
  THEN Head(resolver[ip].fqdn) ELSE ip

\* the eight label values of a record
LabelsOf(q) ==
  LET ip == IF q.ip = Missing THEN "unknown" ELSE q.ip IN
  [job |-> "pihole_logs_exporter", service |-> "pihole_query_log",
   host |-> Host, client_ip |-> ip, client_name |-> ShortName(ip),
   type |-> IF q.type = Missing THEN "unknown" ELSE q.type,
   status |-> IF q.status = Missing THEN "unknown" ELSE q.status,
   domain |-> IF q.domain = Missing THEN "unknown" ELSE q.domain]

RECURSIVE CountValues(_, _)
CountValues(streams, g) ==
  IF g > Len(streams) THEN 0
  ELSE Len(streams[g].values) + CountValues(streams, g + 1)

\* C23: format_for_loki puts two records into the same stream group if and
\* only if they agree on all eight label values; the groups appear in the
\* order in which their label tuple was first seen, the values inside a
\* group keep the input order, and the total number of values equals the
\* number of records that were not skipped.
C23_StreamGroups ==
  LET streams == fmtCall.streams IN
  /\ \A j \in Formatted : Cardinality(Places(j)) = 1
  /\ \A j \in Passed \ Formatted : Places(j) = {}
  /\ CountValues(streams, 1) = Cardinality(Formatted)
  /\ \A j, k \in Formatted :
       GroupOf(j) = GroupOf(k)
         <=> LabelsOf(fmtCall.queries[j]) = LabelsOf(fmtCall.queries[k])
  /\ \A j \in Formatted : streams[GroupOf(j)].stream = LabelsOf(fmtCall.queries[j])
  /\ \A g \in 1..Len(streams) :
       /\ streams[g].values # <<>>
       /\ \A v, w \in 1..Len(streams[g].values) :
            v < w => streams[g].values[v].log_line.id < streams[g].values[w].log_line.id
  /\ \A g, h \in 1..Len(streams) :
       g < h => streams[g].values[1].log_line.id < streams[h].values[1].log_line.id

\* a batch of three records was formatted into two groups: the first and the
\* third record share the first group, the second record stands between them
C23_Witness ==
  /\ fmtCall.returned
  /\ Len(fmtCall.queries) = 3
  /\ Len(fmtCall.streams) = 2
  /\ Len(fmtCall.streams[1].values) = 2
  /\ fmtCall.streams[1].values[1].log_line.id = 1
  /\ fmtCall.streams[1].values[2].log_line.id = 3
  /\ fmtCall.streams[2].values[1].log_line.id = 2
  /\ fmtCall.queries[1].time # fmtCall.queries[3].time

\* the whole second of the timestamp of record j of the batch
WholeSecond(j) == fmtCall.queries[j].time.tenths \div 10

\* C24: format_for_loki returns, together with the groups, the maximum
\* timestamp over all records it formatted (the records that were not
\* skipped), whatever the order of the records in the batch (0 when it
\* formatted none).
C24_ReturnsMaxTimestamp ==
  fmtCall.returned =>
    /\ \A j \in Formatted : WholeSecond(j) <= fmtCall.max_timestamp
    /\ IF Formatted = {} THEN fmtCall.max_timestamp = 0
       ELSE \E j \in Formatted : WholeSecond(j) = fmtCall.max_timestamp

\* the returned maximum is the timestamp of the first record of a batch whose
\* later records are older, one of them without timestamp
C24_Witness ==
  /\ fmtCall.returned
  /\ Len(fmtCall.queries) = 3
  /\ fmtCall.max_timestamp = ClockBase + 2
  /\ WholeSecond(1) = ClockBase + 2
  /\ fmtCall.queries[2].time = NoTime
  /\ WholeSecond(3) = ClockBase

\* the values of all groups
AllValues ==
  {fmtCall.streams[g].values[v] :
     <<g, v>> \in {pl \in (1..Len(fmtCall.streams)) \X (1..MaxFormat + 1) :
                     pl[2] <= Len(fmtCall.streams[pl[1]].values)}}

NineZeros == <<"0", "0", "0", "0", "0", "0", "0", "0", "0">>

\* C25: for every formatted record, the log-sink timestamp is the decimal
\* string of the record's whole-second unix time multiplied by
\* 1,000,000,000: the digits of the whole second followed by nine zeros, with
\* no sub-second component.
C25_NanosecondTimestamp ==
  \A val \in AllValues :
    LET ts == val.ts_ns
        whole == WholeSecond(val.log_line.id)
    IN /\ Len(ts) > 9
       /\ \A i \in 1..Len(ts) : IsDigit(ts[i])
       /\ ts[1] # "0"
       /\ SubSeq(ts, Len(ts) - 8, Len(ts)) = NineZeros
       /\ NatOf(SubSeq(ts, 1, Len(ts) - 9)) = whole

\* a record stamped half a second after ClockBase was formatted
C25_Witness ==
  /\ fmtCall.returned
  /\ \E val \in AllValues :
       /\ val.log_line.time = Secs(10 * ClockBase + 5)
       /\ val.ts_ns = PyStr(ClockBase) \o NineZeros

\* C26: in the log path, a record that has no timestamp is skipped alone: it
\* produces no log value and does not change the maximum timestamp, the loop
\* goes on with the next record, and every other record of the same batch is
\* in the groups that are returned for publication.
C26_NoTimestampSkippedAlone ==
  /\ [](fmtCall.returned =>
          \A j \in 1..Len(fmtCall.queries) :
            IF fmtCall.queries[j].time = NoTime
            THEN Places(j) = {}
            ELSE Cardinality(Places(j)) = 1)
  /\ [][(/\ fmtCall.i <= Len(fmtCall.queries)
         /\ fmtCall.queries[fmtCall.i].time = NoTime
         /\ fmtCall' # fmtCall) =>
          /\ fmtCall'.streams = fmtCall.streams
          /\ fmtCall'.max_timestamp = fmtCall.max_timestamp
          /\ fmtCall'.i = fmtCall.i + 1]_vars

\* a batch whose second record has no timestamp was formatted: the first and
\* the third record have their values
C26_Witness ==
  /\ fmtCall.returned
  /\ Len(fmtCall.queries) = 3
  /\ fmtCall.queries[2].time = NoTime
  /\ Places(2) = {}
  /\ Places(1) # {} /\ Places(3) # {}
  /\ fmtCall.max_timestamp = WholeSecond(3)
  /\ WholeSecond(3) > WholeSecond(1)

\* the record lacks a field _process_query reads with q[...]
Lacks(q) ==
  \/ Missing \in {q.type, q.status, q.reply_type, q.ip, q.upstream}
  \/ q.reply_time = NoTimeKey

\* C27: in the metrics path, a record that lacks a required field (type,
\* status, reply type, reply time, client ip or upstream) is skipped alone:
\* the record changes no table, the loop goes on with the remaining records
\* of the batch and the scrape can still emit its 1-minute metrics.
C27_IncompleteRecordSkippedAlone ==
  [][(IngestStep /\ Lacks(scrape'.last)) =>
       /\ scrape'.stage = "reset"
       /\ Snapshot(collector') = Snapshot(collector)]_vars

(***************************************************************************)
(* Metrics collector: resolve_hostname                                     *)
(***************************************************************************)
\* resolve_hostname was called, on resolved'.ip
Called == resolved'.seq # resolved.seq

\* C28: resolve_hostname performs no reverse lookup and returns the cached
\* label when the ip has a cache entry with now - resolvedAt < 3600 seconds;
\* when there is no entry or the entry's age is >= 3600 seconds it performs
\* exactly one lookup and replaces the entry; entries are never removed
\* otherwise.
C28_CacheHitAndRefresh ==
  [][LET cache == collector.hostname_cache
         cache2 == collector'.hostname_cache
         ip == resolved'.ip
     IN IF Called
        THEN /\ DOMAIN cache \subseteq DOMAIN cache2
             /\ \A k \in DOMAIN cache \ {ip} : cache2[k] = cache[k]
             /\ IF ip \in DOMAIN cache /\ clock - cache[ip].at < 3600
                THEN /\ ~resolved'.lookup
                     /\ resolved'.hostname = cache[ip].name
                     /\ cache2 = cache
                ELSE /\ resolved'.lookup
                     /\ DOMAIN cache2 = DOMAIN cache \cup {ip}
                     /\ cache2[ip] = [name |-> resolved'.hostname, at |-> clock]
        ELSE cache2 = cache]_vars

\* an entry that was exactly 3600 seconds old was replaced by a lookup, while
\* the entry of the other address, 3599 seconds old, stayed
C28_Witness ==
  /\ resolved.lookup
  /\ resolved.ip = "10.0.0.2"
  /\ resolved.cached.at = ClockBase
  /\ clock = ClockBase + 3600
  /\ collector.hostname_cache["10.0.0.2"].at = clock
  /\ "10.0.0.3" \in DOMAIN collector.hostname_cache
  /\ collector.hostname_cache["10.0.0.3"].at = ClockBase + 1

\* C29: when the reverse lookup fails, resolve_hostname returns the raw ip as
\* label and still writes a cache entry stamped with the current time, so
\* that two lookups of the same ip are at least 3600 seconds apart however
\* many calls carry that ip; when the lookup succeeds the label is the
\* leftmost dot-separated component of the resolved name.
C29_FailureIsCached ==
  [][(Called /\ resolved'.lookup) =>
       LET cache2 == collector'.hostname_cache
           ip == resolved'.ip
           answer == resolved'.answer
       IN /\ ip \in DOMAIN cache2
          /\ cache2[ip] = [name |-> resolved'.hostname, at |-> clock]
          /\ ~answer.ok => resolved'.hostname = ip
          /\ (answer.ok /\ answer.fqdn # <<>>) => resolved'.hostname = answer.fqdn[1]
          /\ resolved.last[ip] # NoTs => clock - resolved.last[ip] >= 3600]_vars

\* a call found the entry a failed lookup left 3599 seconds before and
\* returned the raw ip without a lookup
C29_Witness ==
  /\ ~resolved.lookup
  /\ resolved.seq = 0
  /\ resolved.ip = "10.0.0.3"
  /\ resolved.hostname = "10.0.0.3"
  /\ resolved.last["10.0.0.3"] = ClockBase
  /\ clock = ClockBase + 3599

(***************************************************************************)
(* Metrics collector: the 1-minute window                                  *)
(***************************************************************************)
\* the queries the upstream held for the window of the last scrape when the
\* scrape asked (as positions in the upstream's log)
InWindow ==
  {i \in 1..window.seen :
     window.log[i].time >= window.from /\ window.log[i].time <= window.until}

\* C30: for every scrape time now >= 0, the metrics path fetches the window
\* from = 60*floor(now/60) - 60 to until = 60*floor(now/60): both bounds are
\* multiples of 60, until - from = 60 and until <= now < until + 60; the
\* 1-minute aggregates emitted by that scrape are built from that window's
\* records only: every emitted count is the number of records of the window
\* that carry its label.
C30_AlignedWindow ==
  scrape.stage = "done" =>
    /\ window.now >= 0
    /\ window.until = 60 * (window.now \div 60)
    /\ window.from = 60 * (window.now \div 60) - 60
    /\ window.until % 60 = 0
    /\ window.from % 60 = 0
    /\ window.until - window.from = 60
    /\ window.until <= window.now
    /\ window.now < window.until + 60
    /\ Len(scrape.batch) = Cardinality(InWindow)
    /\ SamplesOf(emitted, "pihole_dns_queries_processed_1m")[""]
         = Cardinality(InWindow)
    /\ LET types == SamplesOf(emitted, "pihole_query_type_1m")
           statuses == SamplesOf(emitted, "pihole_query_status_1m")
       IN /\ \A i \in InWindow :
               /\ window.log[i].q.type \in DOMAIN types
               /\ window.log[i].q.status \in DOMAIN statuses
          /\ \A k \in DOMAIN types :
               types[k] = Cardinality({i \in InWindow : window.log[i].q.type = k})
          /\ \A k \in DOMAIN statuses :
               statuses[k]
                 = Cardinality({i \in InWindow : window.log[i].q.status = k})

\* a scrape one second into a minute counted the query logged in the minute
\* before and not the query logged in its own minute
C30_Witness ==
  /\ scrape.stage = "done"
  /\ window.now = window.until + 1
  /\ window.seen = 2
  /\ InWindow = {1}
  /\ window.log[2].time = window.now
  /\ SamplesOf(emitted, "pihole_dns_queries_processed_1m")[""] = 1

(***************************************************************************)
(* get_api_call and the cursor round trip followed on their own            *)
(***************************************************************************)
InitApi ==
  /\ LogsIdle /\ MetricsIdle
  /\ fmtCall = NoFormat /\ resolved = NoResolved /\ window = NoWindow
  /\ apiCall = NoApiCall /\ cursorTrip = NoTrip /\ race = NoRace

NextApi == ApiGet

SpecApi == InitApi /\ [][NextApi]_vars

InitTrip ==
  /\ LogsIdle /\ MetricsIdle
  /\ fmtCall = NoFormat /\ resolved = NoResolved /\ window = NoWindow
  /\ apiCall = NoApiCall /\ race = NoRace
  /\ cursorTrip \in {[NoTrip EXCEPT !.stage = "start", !.t = t,
                                    !.before = f, !.file = f] :
                       t \in TripTimestamps, f \in InitialFiles}

NextTrip ==
  \/ TripWrite
  \/ TripRead

SpecTrip == InitTrip /\ [][NextTrip]_vars

\* C31: a get call sends exactly one request, and it returns the decoded
\* value exactly when the response has status 200 and a JSON body; every
\* other response (another status, a body that is not JSON, no response)
\* ends in an error.  The log exporter returns the value of a JSON body
\* that comes with a status below 400 other than 200.
C31_GetApiCall ==
  apiCall.seq > 0 =>
    /\ apiCall.sent = apiCall.seq
    /\ apiCall.value <=>
         (apiCall.resp.status = 200 /\ apiCall.resp.body = "json")

(***************************************************************************)
(* Log exporter: failures of the cursor write, the early return, the       *)
(* value written                                                           *)
(***************************************************************************)
\* the sink accepted the push of process p
Published(p) ==
  pushResp[p] # NotSent /\ pushResp[p].status >= 200 /\ pushResp[p].status < 300

\* process p leaves write_last_timestamp without the file holding the value
\* it was called with
WriteFailedStep(p) ==
  /\ pc[p] = "write" /\ pc'[p] # "write"
  /\ stateFile' # File(PyStr(to_write[p]))

\* C32: when write_last_timestamp fails after a successful publish, the
\* cycle does not raise and goes on to logout, and the stored cursor is the
\* one the cycle read, so that the next cycle reads the same cursor and
\* fetches the same window again.
C32_WriteFailureKeepsCursor ==
  [][\A p \in Procs :
       (WriteFailedStep(p) /\ Published(p)) =>
         /\ pc'[p] = "logout"
         /\ ReadLastTimestamp(stateFile', clock) = last_ts[p]]_vars

(***************************************************************************)
(* Cursor store: round trip                                                *)
(***************************************************************************)
\* C33: after write_last_timestamp(t) succeeds, the state file contains
\* exactly the decimal form of t, whatever it contained before, and the
\* read_last_timestamp that follows returns t.
C33_WriteReadRoundTrip ==
  (cursorTrip.stage \in {"written", "read"} /\ cursorTrip.outcome = "ok") =>
    /\ cursorTrip.file = File(PyStr(cursorTrip.t))
    /\ PyStr(cursorTrip.t) \in
         Seq({"-"} \cup {Digits[d] : d \in DOMAIN Digits})
    /\ cursorTrip.stage = "read" => cursorTrip.read = cursorTrip.t

\* a negative timestamp and a timestamp of four digits were written over a
\* file that held another cursor, and read back
C33_Witness ==
  /\ cursorTrip.stage = "read"
  /\ cursorTrip.outcome = "ok"
  /\ cursorTrip.t \in {0 - MaxStamp, ClockBase + 1}
  /\ cursorTrip.before = File(PyStr(ClockBase - 1) \o <<"\n">>)
  /\ cursorTrip.read = cursorTrip.t

(***************************************************************************)
(* Metrics collector: order of the records                                 *)
(***************************************************************************)
\* the records handed to _process_query since the reset, in order
Ingested ==
  IF scrape.stage = "ingest" THEN Append(scrape.batch, scrape.last)
  ELSE scrape.batch

\* the collector as clear_cnts left it in the last scrape
AfterReset ==
  [k \in DOMAIN NewCollector(None) |->
     IF k \in DOMAIN scrape.cleared THEN scrape.cleared[k]
     ELSE NewCollector(None)[k]]

\* the rearrangements of a sequence
Rearranged(s) ==
  {[i \in 1..Len(s) |-> s[f[i]]] : f \in Permutations(1..Len(s))}

\* the counts of a collector: everything of its aggregation state but the
\* latency sums
Counts(c) == [Snapshot(c) EXCEPT !.latency_sums = EmptyMap]

\* C34: ingestion is order-independent: handing the records of a batch to
\* _process_query in any other order, from the same state after the reset
\* and with the same hostname resolutions, gives the same five count tables,
\* timeout count, error table, total-processed, latency bucket counts and
\* observation counts.
C34_OrderIndependent ==
  scrape.stage \in {"reset", "ingest", "done"} =>
    \A qs \in Rearranged(Ingested) :
      Counts(ProcessAll(AfterReset, qs, clock, resolver).c) = Counts(collector)

(***************************************************************************)
(* Log exporter: export cycles that overlap in time                        *)
(***************************************************************************)
\* an exporter is started, whether or not the other one is still running;
\* it is given a valid sink target and no key.  The exporters are
\* interchangeable: the second one is the one started while the first runs.
OverlapLaunch(p) ==
  /\ LaunchRun(p)
  /\ p = 2 => pc[1] # "idle"
  /\ loki_target'[p] = HttpUrl /\ ~using_auth'[p]
  /\ race' = [race EXCEPT
                !.overlapped = @ \/ \E q \in Procs \ {p} : pc[q] # "idle"]
  /\ UNCHANGED <<fmtCall, resolved, window, apiCall, cursorTrip>>

\* fetch_queries of one of the exporters: the upstream answers with the
\* queries of the window
OverlapFetch(p) ==
  /\ Fetch(p)
  /\ fetchResp'[p] = [status |-> 200, body |-> "queries"]

\* send_to_loki of one of the exporters: the sink accepts the push
OverlapSend(p) ==
  /\ Send(p)
  /\ pushResp'[p] = [status |-> 204, body |-> "none"]

\* write_last_timestamp of one of the exporters: the file is written, or
\* open() fails and the file is as it was
OverlapWrite(p) ==
  /\ WriteCursorRun(p)
  /\ stateFile' \in {stateFile, File(PyStr(to_write[p]))}
  /\ race' = [race EXCEPT
                !.writeFailed = @ \/ stateFile' # File(PyStr(to_write[p]))]
  /\ UNCHANGED <<fmtCall, resolved, window, apiCall, cursorTrip>>

\* the upstream logs a query that carries its time
OverlapLogQuery ==
  /\ LogQuery
  /\ queriesDb'[Len(queriesDb')].hasTime

\* the state file holds the cursor of a run one second ago
InitOverlap ==
  /\ Init
  /\ stateFile = File(PyStr(ClockBase - 1) \o <<"\n">>)

NextOverlap ==
  \/ \E p \in Procs : OverlapLaunch(p)
  \/ \E p \in Procs : RunBegin(p)
  \/ \E p \in Procs : OverlapFetch(p)
  \/ \E p \in Procs : OverlapSend(p)
  \/ \E p \in Procs : OverlapWrite(p)
  \/ \E p \in Procs : Logout(p)
  \/ \E p \in Procs : Exit(p)
  \/ Tick
  \/ OverlapLogQuery

SpecOverlap == InitOverlap /\ [][NextOverlap]_vars

\* a record has been accepted twice by the sink / the cursor file holds less
\* than it held before
PublishedTwice == \E i \in 1..Len(pushed) : pushed[i] >= 2
CursorWentBack == FileHoldsInt(stateFile) /\ FileInt(stateFile) < cursorHigh

C36_RecordsNotModified ==
  fmtCall.queries = fmtCall.fetched

(***************************************************************************)
(* Metrics collector: the tables and the total                             *)
(***************************************************************************)
RECURSIVE SumOver(_, _)
\* the sum of the values of table d over the keys ks
SumOver(d, ks) ==
  IF ks = {} THEN 0
  ELSE LET k == CHOOSE x \in ks : TRUE IN d[k] + SumOver(d, ks \ {k})

SumTable(d) == SumOver(d, DOMAIN d)

\* C37: in every state after a reset, with n the number of records ingested
\* since, total-processed is n and the values of each of the five count
\* tables sum to n, keys kept at 0 by the reset included.
C37_TablesSumToTotal ==
  scrape.stage \in {"reset", "ingest", "done"} =>
    /\ scrape.stage # "ingest" =>
         collector.total_queries_processed = Len(scrape.batch)
    /\ \A t \in CountTables :
         SumTable(collector[t]) = collector.total_queries_processed

(***************************************************************************)
(* Metrics collector: keys that stop occurring                             *)
(***************************************************************************)
\* a scrape has just run to its end on the state of the unprimed collector
ScrapeDoneStep == scrape'.seq # scrape.seq /\ scrape'.stage = "done"

\* the tables of a collector that has only ever ingested the batch qs
Occurring(qs) ==
  Snapshot(ProcessAll(ClearCnts(NewCollector(None)), qs, clock, resolver).c)

\* C38: in a scrape that runs to its end, a key of a count table that had a
\* non-zero count after the scrape before and does not occur in the batch is
\* kept with value 0 and emitted with value 0; a key that was already at 0
\* and still does not occur is removed and not emitted; and every emitted
\* key carries the count of this scrape's batch, never a count carried over
\* from an earlier scrape.
C38_StaleKeyZeroThenRemoved ==
  [][ScrapeDoneStep =>
       \A batch \in {Occurring(scrape'.batch)}, t \in CountTables :
         LET samples == SamplesOf(emitted', TableFamily[t])
             occ == batch[t]
         IN /\ \A k \in DOMAIN collector[t] \ DOMAIN occ :
                 IF collector[t][k] # 0
                 THEN /\ k \in DOMAIN collector'[t] /\ collector'[t][k] = 0
                      /\ k \in DOMAIN samples /\ samples[k] = 0
                 ELSE k \notin DOMAIN collector'[t] /\ k \notin DOMAIN samples
            /\ \A k \in DOMAIN samples : samples[k] = CountOf(occ, k)
            /\ DOMAIN occ \subseteq DOMAIN samples]_vars

\* a scrape of a non-empty batch has emitted, with value 0, a client that
\* the scrape before counted and that its own batch does not hold
C38_Witness ==
  /\ scrape.stage = "done"
  /\ scrape.batch # <<>>
  /\ \E k \in DOMAIN collector.client_cnt :
       /\ collector.client_cnt[k] = 0
       /\ k \notin DOMAIN Occurring(scrape.batch).client_cnt
       /\ SamplesOf(emitted, "pihole_query_client_1m")[k] = 0

(***************************************************************************)
(* Log exporter: the cursor is already current                             *)
(***************************************************************************)
\* the cycle of process p read a cursor that is not behind its clock
CursorCurrent(p) == HasRead(p) /\ last_ts[p] >= current_ts[p]

SentTimes(p) == {queriesDb[to_send[p][k]].time : k \in 1..Len(to_send[p])}

====
